---------------------------- MODULE Spec2Model ----------------------------
(***************************************************************************)
(* Model of the multijet loss function of andrey-popov/multijet-jec:       *)
(* JetCorrBase (Fit/src/FitBase.cpp) and Multijet (Fit/src/Multijet.cpp),  *)
(* and of the tools around it: L3Corr and MultijetFOM                      *)
(* (Analysis/MultijetFOM.cpp), the TriggerBin plugin                       *)
(* (mensura/plugins/TriggerBin.cpp) with the DynamicTriggerFilter plugin   *)
(* that reads it, and PartitionFile (events/prog/partition_runs.cpp).      *)
(*                                                                         *)
(* Numbers.  A C++ double is modelled as an exact rational, or as one of   *)
(* the IEEE special values NaN, +inf, -inf that a division by zero         *)
(* produces.  Rounding and the sign of zero are not modelled.  A 32-bit    *)
(* unsigned is modelled as the integer with the same bit pattern read in   *)
(* two's complement (unsigned(-1) is -1): on these + and - agree with the  *)
(* arithmetic modulo 2^32, and the unsigned order is given by U32Less.     *)
(* C++ containers are 0-based; At(s, i) reads element i of a sequence.     *)
(***************************************************************************)
EXTENDS Integers, Sequences, FiniteSets, TLC

VARIABLES
    \* JetCorrBase
    parameters,     \* JetCorrBase::parameters, the corrector's parameter vector
    setParamsThrew, \* whether the last call of SetParams threw
    \* one call of JetCorrBase::UndoCorr, step by step
    undoPc,         \* "idle", "loop", "returned", "thrown"
    undoPt,         \* argument pt
    undoTol,        \* argument tolerance
    ptUncorr,       \* local ptUncorr
    iter,           \* local iter
    \* one call of Multijet::MapBinning
    mapSource,      \* argument source
    mapTarget,      \* argument target
    mapResult,      \* what the call produced
    \* one call of Multijet::ComputeMPF / ComputePtBal
    cmpBin,         \* argument triggerBin
    cmpRange,       \* arguments ptLeadStart, ptLeadEnd, ptJetStart
    cmpResult,      \* what the call produced
    \* the Multijet object and calls of Multijet::Eval
    method,         \* Multijet::method
    triggerBins,    \* Multijet::triggerBins
    minPt,          \* Multijet::minPt
    dimensionality, \* Multijet::dimensionality
    evalResult,     \* what the last call of Eval produced
    \* an L3Corr object (Analysis/MultijetFOM.cpp) and the calls made on it
    l3Pc,           \* "none", "constructed", "terminated"
    type,           \* L3Corr::type
    func,           \* L3Corr::func, the member function selected
    degree,         \* L3Corr::degree
    l3Call,         \* what the last evaluation of a functional form produced
    \* the TriggerBin plugin (mensura/plugins/TriggerBin.cpp)
    ptJ1Thresholds, \* TriggerBin::ptJ1Thresholds
    pluginBin,      \* TriggerBin::triggerBin
    processed,      \* the last event given to ProcessEvent and its verdict
    \* the DynamicTriggerFilter plugin (mensura/plugins/DynamicTriggerFilter.cpp)
    filterPc,       \* "none", "constructed", "running", "terminated"
    triggers,       \* DynamicTriggerFilter::triggers
    isMC,           \* DynamicTriggerFilter::isMC
    requestedTriggerIndex, \* DynamicTriggerFilter::requestedTriggerIndex
    filterCall,     \* the last call made on the filter for the current event
    \* one call of PartitionFile (events/prog/partition_runs.cpp)
    partPc,         \* "none", "copy", "done"
    runs,           \* argument runs
    srcRuns,        \* run number of every entry of the input file
    iEntry,         \* local iEntry
    outTrees,       \* per output file, the input entries filled into it
    outCounts,      \* local outCounts
    outputFiles     \* per output file: "open", "written" or "removed"

vars == <<parameters, setParamsThrew, undoPc, undoPt, undoTol, ptUncorr, iter,
          mapSource, mapTarget, mapResult, cmpBin, cmpRange, cmpResult,
          method, triggerBins, minPt, dimensionality, evalResult,
          l3Pc, type, func, degree, l3Call,
          ptJ1Thresholds, pluginBin, processed,
          filterPc, triggers, isMC, requestedTriggerIndex, filterCall,
          partPc, runs, srcRuns, iEntry, outTrees, outCounts, outputFiles>>

corrVars == <<parameters, setParamsThrew>>
undoVars == <<undoPc, undoPt, undoTol, ptUncorr, iter>>
mapVars == <<mapSource, mapTarget, mapResult>>
cmpVars == <<cmpBin, cmpRange, cmpResult>>
evalVars == <<method, triggerBins, minPt, dimensionality, evalResult>>
l3Vars == <<l3Pc, type, func, degree, l3Call>>
pluginVars == <<ptJ1Thresholds, pluginBin, processed>>
filterVars == <<filterPc, triggers, isMC, requestedTriggerIndex, filterCall>>
partVars == <<partPc, runs, srcRuns, iEntry, outTrees, outCounts, outputFiles>>
fitVars == <<corrVars, undoVars, mapVars, cmpVars, evalVars>>
toolVars == <<l3Vars, pluginVars, filterVars, partVars>>

---------------------------------------------------------------------------
(* Sequences as C++ containers *)

At(s, i) == s[i + 1]

Back(s) == s[Len(s)]

Range(s) == {s[i] : i \in DOMAIN s}

---------------------------------------------------------------------------
(* double *)

RECURSIVE GCD(_, _)
GCD(a, b) == IF b = 0 THEN a ELSE GCD(b, a % b)

AbsInt(a) == IF a < 0 THEN -a ELSE a

\* The rational n/d (d # 0) in lowest terms with a positive denominator.
Rat(n, d) ==
    LET g == GCD(AbsInt(n), AbsInt(d))
        s == IF d < 0 THEN -1 ELSE 1
    IN [k |-> "fin", n |-> s * (n \div g), d |-> s * (d \div g)]

D(n) == [k |-> "fin", n |-> n, d |-> 1]

Zero == D(0)

One == D(1)

NaN == [k |-> "nan", n |-> 0, d |-> 1]

PosInf == [k |-> "inf", n |-> 1, d |-> 1]

NegInf == [k |-> "inf", n |-> -1, d |-> 1]

IsFinite(a) == a.k = "fin"

IsNaN(a) == a.k = "nan"

Sign(a) == IF a.n > 0 THEN 1 ELSE IF a.n < 0 THEN -1 ELSE 0

SignedInf(s) == IF s > 0 THEN PosInf ELSE NegInf

\* a/b < c/d for b, d > 0, by the continued-fraction expansions (no products).
RECURSIVE RatLess(_, _, _, _)
RatLess(a, b, c, d) ==
    LET qa == a \div b
        qc == c \div d
        ra == a % b
        rc == c % d
    IN IF qa # qc THEN qa < qc
       ELSE IF rc = 0 THEN FALSE
       ELSE IF ra = 0 THEN TRUE
       ELSE RatLess(d, rc, b, ra)

DNeg(a) == IF IsNaN(a) THEN NaN ELSE [a EXCEPT !.n = -a.n]

DAdd(a, b) ==
    IF IsNaN(a) \/ IsNaN(b) THEN NaN
    ELSE IF a.k = "inf" /\ b.k = "inf" THEN (IF a.n = b.n THEN a ELSE NaN)
    ELSE IF a.k = "inf" THEN a
    ELSE IF b.k = "inf" THEN b
    ELSE LET g == GCD(a.d, b.d)
         IN Rat(a.n * (b.d \div g) + b.n * (a.d \div g), (a.d \div g) * b.d)

DSub(a, b) == DAdd(a, DNeg(b))

DMul(a, b) ==
    IF IsNaN(a) \/ IsNaN(b) THEN NaN
    ELSE IF a.k = "inf" \/ b.k = "inf"
         THEN (IF Sign(a) * Sign(b) = 0 THEN NaN ELSE SignedInf(Sign(a) * Sign(b)))
    ELSE LET g1 == GCD(AbsInt(a.n), b.d)
             g2 == GCD(AbsInt(b.n), a.d)
         IN Rat((a.n \div g1) * (b.n \div g2), (a.d \div g2) * (b.d \div g1))

DDiv(a, b) ==
    IF IsNaN(a) \/ IsNaN(b) THEN NaN
    ELSE IF b.k = "inf" THEN (IF a.k = "inf" THEN NaN ELSE Zero)
    ELSE IF b.n = 0 THEN (IF Sign(a) = 0 THEN NaN ELSE SignedInf(Sign(a)))
    ELSE IF a.k = "inf" THEN SignedInf(Sign(a) * Sign(b))
    ELSE DMul(a, Rat(b.d, b.n))

DLess(a, b) ==
    IF IsNaN(a) \/ IsNaN(b) THEN FALSE
    ELSE IF a.k = "inf" THEN a.n < 0 /\ b # a
    ELSE IF b.k = "inf" THEN b.n > 0
    ELSE RatLess(a.n, a.d, b.n, b.d)

DGreater(a, b) == DLess(b, a)

DEq(a, b) == ~IsNaN(a) /\ ~IsNaN(b) /\ a = b

DLeq(a, b) == DLess(a, b) \/ DEq(a, b)

DAbs(a) == IF IsNaN(a) THEN NaN ELSE [a EXCEPT !.n = AbsInt(a.n)]

DSquare(a) == DMul(a, a)

---------------------------------------------------------------------------
(* unsigned *)

\* unsigned(-1)
UMinusOne == 0 - 1

\* a < b for two 32-bit unsigned values
U32Less(a, b) == IF (a < 0) = (b < 0) THEN a < b ELSE b < 0

U32Leq(a, b) == a = b \/ U32Less(a, b)

\* a < s for a 32-bit unsigned a and a std::size_t s (64 bits) that is below
\* 2^31: a is widened to 64 bits, so a word with its top bit set is not less.
U32LessSize(a, s) == a >= 0 /\ a < s

\* a == s, widened the same way
U32EqSize(a, s) == a >= 0 /\ a = s

---------------------------------------------------------------------------
(* Multijet::MapBinning *)

FracBin(index, frac) == [index |-> index, frac |-> frac]

\* The relative tolerance used to snap matched edges to the edges of a bin
Tolerance == Rat(1, 10000000)

\* A faulty variant of OutOfRange: the upper end of the range is not checked
OutOfRangeLowerOnly(source, target) ==
    DLess(At(target, 0), At(source, 0))

\* A faulty variant of OutOfRange: a target that ends at an end of the source is rejected
OutOfRangeAtEnds(source, target) ==
    DLeq(At(target, 0), At(source, 0)) \/ DLeq(Back(source), Back(target))

\* The range check that opens MapBinning
OutOfRange(source, target) ==
    \/ DLess(At(target, 0), At(source, 0))
    \/ DGreater(At(target, Len(target) - 1), At(source, Len(source) - 1))

\* The condition of the loop that scrolls curSrcBin to the bin containing x
ScrollCond(source, curSrcBin, x) ==
    /\ U32LessSize(curSrcBin, Len(source) - 1)
    /\ DLess(At(source, curSrcBin + 1), x)

RECURSIVE Scroll(_, _, _)
Scroll(source, curSrcBin, x) ==
    IF ScrollCond(source, curSrcBin, x)
    THEN Scroll(source, curSrcBin + 1, x)
    ELSE curSrcBin

\* A faulty variant of RelPos: an edge in the underflow bin is placed just
\* below the upper edge of that bin instead of on it
RelPosJustInside(source, curSrcBin, x) ==
    IF curSrcBin = UMinusOne THEN DSub(One, Tolerance)
    ELSE IF U32EqSize(curSrcBin, Len(source) - 1) THEN Zero
    ELSE DDiv(DSub(x, At(source, curSrcBin)),
              DSub(At(source, curSrcBin + 1), At(source, curSrcBin)))

\* Relative position of x inside bin curSrcBin of the source binning
RelPos(source, curSrcBin, x) ==
    IF curSrcBin = UMinusOne THEN One
    ELSE IF U32EqSize(curSrcBin, Len(source) - 1) THEN Zero
    ELSE LET srcBinStart == At(source, curSrcBin)
             srcBinWidth == DSub(At(source, curSrcBin + 1), srcBinStart)
         IN DDiv(DSub(x, srcBinStart), srcBinWidth)

\* The loop over the target edges from edge i on; curSrcBin is carried along
RECURSIVE MatchEdges(_, _, _, _)
MatchEdges(source, target, i, curSrcBin) ==
    IF i = Len(target) THEN <<>>
    ELSE LET x == At(target, i)
             cur == Scroll(source, curSrcBin, x)
         IN <<FracBin(cur, RelPos(source, cur, x))>>
              \o MatchEdges(source, target, i + 1, cur)

\* The closing boundary built for matched edge i, given the boundaries so far
\* (with the snapped srcBin and relPos, which the opening boundary starts from)
ClosingBoundary(matchedEdges, i, boundaries) ==
    LET srcBin0 == At(matchedEdges, i).index
        relPos0 == At(matchedEdges, i).frac
        relPos1 == IF DGreater(relPos0, DSub(One, Tolerance)) THEN One ELSE relPos0
        down == DLess(relPos1, Tolerance) /\ srcBin0 # UMinusOne
        srcBin == IF down THEN srcBin0 - 1 ELSE srcBin0
        relPos == IF down THEN One ELSE relPos1
        fraction == IF srcBin = Back(boundaries).index THEN Zero ELSE relPos
    IN [boundary |-> FracBin(srcBin, fraction), srcBin |-> srcBin, relPos |-> relPos]

\* The opening boundary built after the closing one
OpeningBoundary(matchedEdges, i, closing) ==
    LET up == DEq(closing.relPos, One)
        srcBin == IF up THEN closing.srcBin + 1 ELSE closing.srcBin
        relPos == IF up THEN Zero ELSE closing.relPos
        fraction ==
            IF i < Len(matchedEdges) - 1 /\ At(matchedEdges, i + 1).index = srcBin
            THEN DSub(At(matchedEdges, i + 1).frac, relPos)
            ELSE DSub(One, relPos)
    IN FracBin(srcBin, fraction)

\* The loop over the matched edges from edge i on
RECURSIVE BuildBoundaries(_, _, _)
BuildBoundaries(matchedEdges, i, boundaries) ==
    IF i = Len(matchedEdges) THEN boundaries
    ELSE LET closing == ClosingBoundary(matchedEdges, i, boundaries)
             opening == OpeningBoundary(matchedEdges, i, closing)
         IN BuildBoundaries(matchedEdges, i + 1,
                            boundaries \o <<closing.boundary, opening>>)

\* A faulty variant of LastBoundary: the last interior bin of the source
\* binning closes the last range
LastBoundaryInterior(source, boundaries) ==
    LET srcBin == Len(source) - 2
    IN FracBin(srcBin, IF srcBin = Back(boundaries).index THEN Zero ELSE One)

\* The last closing boundary: the overflow bin of the source binning
LastBoundary(source, boundaries) ==
    LET srcBin == Len(source) - 1
    IN FracBin(srcBin, IF srcBin = Back(boundaries).index THEN Zero ELSE One)

\* All boundaries, two for each of the target bins 0 .. target.size()
Boundaries(source, target) ==
    LET matchedEdges == MatchEdges(source, target, 0, UMinusOne)
        inner == BuildBoundaries(matchedEdges, 0, <<FracBin(UMinusOne, One)>>)
    IN inner \o <<LastBoundary(source, inner)>>

\* The bin map in ROOT's numbering: targetBin |-> <<start, end>>
ToBinMap(target, boundaries) ==
    [targetBin \in 0 .. Len(target) |->
        LET start == At(boundaries, targetBin * 2)
            end == At(boundaries, targetBin * 2 + 1)
        IN <<FracBin(start.index + 1, start.frac), FracBin(end.index + 1, end.frac)>>]

\* MapBinning: a thrown std::runtime_error, or the bin map
MapBinning(source, target) ==
    IF OutOfRange(source, target)
    THEN [thrown |-> TRUE, binMap |-> <<>>]
    ELSE [thrown |-> FALSE, binMap |-> ToBinMap(target, Boundaries(source, target))]

---------------------------------------------------------------------------
(* JetCorrBase *)

\* Knots of the corrector that stands for the classes derived from JetCorrBase
Knots == <<D(3)>>

\* Number of knots at or below pt, from knot i on
RECURSIVE KnotsBelow(_, _)
KnotsBelow(pt, i) ==
    IF i > Len(Knots) THEN 0
    ELSE (IF DLeq(Knots[i], pt) THEN 1 ELSE 0) + KnotsBelow(pt, i + 1)

\* JetCorrBase::Eval is pure virtual.  The model's corrector is a step
\* function of pt with one parameter for each of the intervals between the
\* knots: the correction is 1 plus the parameter of the interval of pt, so
\* that, as in the correctors of the repository, zero parameters give the
\* identity.
Eval(params, pt) == DAdd(One, params[KnotsBelow(pt, 1) + 1])

\* JetCorrBase::JetCorrBase(numParams)
NumParams == Len(Knots) + 1

GetNumParams(params) == Len(params)

\* A faulty variant of SetParamsRejects: only a longer vector is rejected
SetParamsRejectsLonger(params, newParams) == Len(params) < Len(newParams)

\* Whether SetParams rejects newParams
SetParamsRejects(params, newParams) == Len(params) # Len(newParams)

\* The parameters after SetParams(newParams)
SetParamsResult(params, newParams) ==
    IF SetParamsRejects(params, newParams) THEN params ELSE newParams

---------------------------------------------------------------------------
(* JetCorrBase::UndoCorr *)

maxIter == 100

\* a < 10^(-e): how a double is compared with a tolerance of 10^(-e)
RECURSIVE LessTenToMinus(_, _, _)
LessTenToMinus(n, d, e) ==
    IF n <= 0 \/ e = 0 THEN n < d
    ELSE LessTenToMinus(n, ((d - 1) \div 10) + 1, e - 1)

DLessTenToMinus(a, e) ==
    IF IsNaN(a) THEN FALSE
    ELSE IF a.k = "inf" THEN a.n < 0
    ELSE LessTenToMinus(a.n, a.d, e)

\* Exponent of the default tolerance, 1e-10
DefaultTolerance == 10

\* The starting value of ptUncorr
UndoSeed(params, pt) == DDiv(pt, Eval(params, pt))

\* A faulty variant of UndoConverged: the deviation is compared without std::abs
UndoConvergedNoAbs(params, pt, tolerance, ptUnc) ==
    \E curCorr \in {Eval(params, ptUnc)} :
        \E ptRecomp \in {DMul(ptUnc, curCorr)} :
            \E ratio \in {DDiv(ptRecomp, pt)} :
                \E deviation \in {DSub(ratio, One)} :
                    DLessTenToMinus(deviation, tolerance)

\* The test that ends the loop, for a tolerance of 10^(-tolerance).  The
\* locals of the loop body are bound to their values one after the other.
UndoConverged(params, pt, tolerance, ptUnc) ==
    \E curCorr \in {Eval(params, ptUnc)} :
        \E ptRecomp \in {DMul(ptUnc, curCorr)} :
            \E ratio \in {DDiv(ptRecomp, pt)} :
                \E deviation \in {DAbs(DSub(ratio, One))} :
                    DLessTenToMinus(deviation, tolerance)

\* The fixed-point update of ptUncorr
UndoUpdate(params, pt, ptUnc) ==
    CHOOSE next \in {DDiv(pt, curCorr) : curCorr \in {Eval(params, ptUnc)}} : TRUE

\* The test of the iteration budget that follows the update
UndoExceeded(it) == it = maxIter

\* The loop as a whole.  The loop's state is (ptUncorr, iter): when a state
\* comes back the loop never ends, and the call hangs.
RECURSIVE UndoLoop(_, _, _, _, _, _)
UndoLoop(params, pt, tolerance, ptUnc, it, seen) ==
    IF UndoConverged(params, pt, tolerance, ptUnc)
    THEN [outcome |-> "returned", value |-> ptUnc]
    ELSE LET next == UndoUpdate(params, pt, ptUnc)
         IN IF UndoExceeded(it) THEN [outcome |-> "thrown", value |-> NaN]
            ELSE IF <<next, it>> \in seen THEN [outcome |-> "hangs", value |-> NaN]
            ELSE UndoLoop(params, pt, tolerance, next, it, seen \cup {<<next, it>>})

UndoCorr(params, pt, tolerance) ==
    LET seed == UndoSeed(params, pt)
    IN UndoLoop(params, pt, tolerance, seed, 0, {<<seed, 0>>})

---------------------------------------------------------------------------
(* ROOT histograms, as Multijet reads them.  An axis is the sequence of its *)
(* bin edges; bin 0 is the underflow, bins 1 .. NBins are interior and bin  *)
(* NBins + 1 is the overflow.  Contents and errors are sequences read with  *)
(* At, one entry for each of the bins 0 .. NBins + 1.                       *)

NBins(edges) == Len(edges) - 1

Clamp(i, lo, hi) == IF i < lo THEN lo ELSE IF i > hi THEN hi ELSE i

\* TAxis::GetBinLowEdge
GetBinLowEdge(edges, bin) ==
    IF bin > 0 /\ bin <= NBins(edges) THEN edges[bin]
    ELSE LET binWidth == DDiv(DSub(Back(edges), edges[1]), D(NBins(edges)))
         IN DAdd(edges[1], DMul(D(bin - 1), binWidth))

\* TAxis::GetBinWidth
GetBinWidth(edges, bin) ==
    LET b == Clamp(bin, 1, NBins(edges))
    IN DSub(edges[b + 1], edges[b])

\* TAxis::GetBinCenter
GetBinCenter(edges, bin) ==
    IF bin > 0 /\ bin <= NBins(edges)
    THEN DDiv(DAdd(edges[bin], edges[bin + 1]), D(2))
    ELSE LET binWidth == DDiv(DSub(Back(edges), edges[1]), D(NBins(edges)))
         IN DAdd(edges[1], DMul(Rat(2 * bin - 1, 2), binWidth))

\* TAxis::FindFixBin
FindFixBin(edges, x) ==
    IF DLess(x, edges[1]) THEN 0
    ELSE IF ~DLess(x, Back(edges)) THEN NBins(edges) + 1
    ELSE CHOOSE bin \in 1 .. NBins(edges) :
            DLeq(edges[bin], x) /\ DLess(x, edges[bin + 1])

\* TH1::GetBinContent, TH1::GetBinError: a bin outside 0 .. NBins + 1 is read
\* as the nearest of the two outer bins
GetBinContent(content, bin) == At(content, Clamp(bin, 0, Len(content) - 1))

\* TH2::GetBinContent; content is a sequence of rows, one for each bin in x
GetBinContent2(content, binx, biny) ==
    GetBinContent(GetBinContent(content, binx), biny)

\* Conversion of a non-negative double to unsigned
ToUnsigned(a) == a.n \div a.d

---------------------------------------------------------------------------
(* Multijet::Multijet: the fields of a trigger bin that are computed *)

\* bin.binning: resize(NbinsX + 1), then one emplace_back for each lower edge
Binning(ptLeadEdges) ==
    [i \in 1 .. NBins(ptLeadEdges) + 1 |-> Zero]
      \o [i \in 1 .. NBins(ptLeadEdges) + 1 |-> GetBinLowEdge(ptLeadEdges, i)]

\* bin.totalUnc2: one entry for each of the bins 1 .. NbinsX + 1 of simBalProfile
TotalUnc2(simEdges, simError, rebinnedError) ==
    [j \in 1 .. NBins(simEdges) + 1 |->
        DAdd(DSquare(GetBinContent(simError, j)),
             DSquare(GetBinContent(rebinnedError, j)))]

\* A trigger bin, from the histograms read from the file.  rebinnedError
\* holds the bin errors of balProfile rebinned with the binning of simBalProfile.
TriggerBin(ptLeadEdges, ptLead, ptLeadProfile, balProfile, ptJetEdges, ptJetSumProj, simEdges, simBalProfile, simError, rebinnedError) ==
    [ptLeadEdges |-> ptLeadEdges, ptLead |-> ptLead, ptLeadProfile |-> ptLeadProfile,
     balProfile |-> balProfile, ptJetEdges |-> ptJetEdges, ptJetSumProj |-> ptJetSumProj,
     simEdges |-> simEdges, simBalProfile |-> simBalProfile,
     binning |-> Binning(ptLeadEdges),
     totalUnc2 |-> TotalUnc2(simEdges, simError, rebinnedError)]

RECURSIVE SumNBins(_, _)
SumNBins(bins, i) ==
    IF i > Len(bins) THEN 0 ELSE NBins(bins[i].simEdges) + SumNBins(bins, i + 1)

\* A faulty variant of Dimensionality: the edges of the simulation binnings
\* are counted instead of the bins
DimensionalityOfEdges(bins) == SumNBins(bins, 1) + Len(bins)

\* dimensionality, as the constructor precomputes it
Dimensionality(bins) == SumNBins(bins, 1)

GetDim(dim) == dim

---------------------------------------------------------------------------
(* Multijet::ComputeMPF and Multijet::ComputePtBal *)

\* The inclusion fraction of bin iPtLead of the range ptLeadStart .. ptLeadEnd
InclusionFraction(iPtLead, ptLeadStart, ptLeadEnd) ==
    IF iPtLead = ptLeadStart.index THEN ptLeadStart.frac
    ELSE IF iPtLead = ptLeadEnd.index THEN ptLeadEnd.frac
    ELSE One

\* A faulty variant of MPFJetTerm: the correction is applied as in ComputePtBal
MPFJetTermAsPtBal(triggerBin, iPtLead, iPtJ, params) ==
    LET pt == GetBinCenter(triggerBin.ptJetEdges, iPtJ)
        s == GetBinContent2(triggerBin.ptJetSumProj, iPtLead, iPtJ)
    IN DMul(Eval(params, pt), s)

\* ComputeMPF: what one other-jet bin adds to sumJets, before its fraction
MPFJetTerm(triggerBin, iPtLead, iPtJ, params) ==
    LET pt == GetBinCenter(triggerBin.ptJetEdges, iPtJ)
        s == GetBinContent2(triggerBin.ptJetSumProj, iPtLead, iPtJ)
    IN DMul(DSub(One, Eval(params, pt)), s)

\* ComputePtBal: what one other-jet bin adds to sumJets, before its fraction
PtBalJetTerm(triggerBin, iPtLead, iPtJ, params) ==
    LET pt == GetBinCenter(triggerBin.ptJetEdges, iPtJ)
        s == GetBinContent2(triggerBin.ptJetSumProj, iPtLead, iPtJ)
    IN DMul(s, Eval(params, pt))

\* ComputeMPF: the loop over the other-jet bins after the starting one
RECURSIVE MPFJetLoop(_, _, _, _)
MPFJetLoop(triggerBin, iPtLead, iPtJ, params) ==
    IF iPtJ < NBins(triggerBin.ptJetEdges) + 1
    THEN DAdd(MPFJetTerm(triggerBin, iPtLead, iPtJ, params),
              MPFJetLoop(triggerBin, iPtLead, iPtJ + 1, params))
    ELSE Zero

\* ComputePtBal: the loop over the other-jet bins after the starting one
RECURSIVE PtBalJetLoop(_, _, _, _)
PtBalJetLoop(triggerBin, iPtLead, iPtJ, params) ==
    IF iPtJ < NBins(triggerBin.ptJetEdges) + 1
    THEN DAdd(PtBalJetTerm(triggerBin, iPtLead, iPtJ, params),
              PtBalJetLoop(triggerBin, iPtLead, iPtJ + 1, params))
    ELSE Zero

\* ComputeMPF: sumJets for bin iPtLead
MPFSumJets(triggerBin, iPtLead, ptJetStart, params) ==
    DAdd(DMul(MPFJetTerm(triggerBin, iPtLead, ptJetStart.index, params), ptJetStart.frac),
         MPFJetLoop(triggerBin, iPtLead, ptJetStart.index + 1, params))

\* ComputePtBal: sumJets for bin iPtLead
PtBalSumJets(triggerBin, iPtLead, ptJetStart, params) ==
    DAdd(DMul(PtBalJetTerm(triggerBin, iPtLead, ptJetStart.index, params), ptJetStart.frac),
         PtBalJetLoop(triggerBin, iPtLead, ptJetStart.index + 1, params))

\* ComputeMPF: what bin iPtLead adds to sumBal
MPFBinTerm(triggerBin, iPtLead, numEvents, fraction, ptJetStart, params) ==
    LET ptLead == GetBinContent(triggerBin.ptLeadProfile, iPtLead)
        sumJets == MPFSumJets(triggerBin, iPtLead, ptJetStart, params)
        bal == GetBinContent(triggerBin.balProfile, iPtLead)
    IN DAdd(DMul(DDiv(DMul(bal, D(numEvents)), Eval(params, ptLead)), fraction),
            DMul(DDiv(sumJets, DMul(ptLead, Eval(params, ptLead))), fraction))

\* ComputePtBal: what bin iPtLead adds to sumBal
PtBalBinTerm(triggerBin, iPtLead, numEvents, fraction, ptJetStart, params) ==
    LET ptLead == GetBinContent(triggerBin.ptLeadProfile, iPtLead)
        sumJets == PtBalSumJets(triggerBin, iPtLead, ptJetStart, params)
    IN DMul(DDiv(sumJets, DMul(ptLead, Eval(params, ptLead))), fraction)

\* ComputeMPF: the loop over the bins in ptlead, from bin iPtLead on
RECURSIVE MPFLoop(_, _, _, _, _, _, _, _)
MPFLoop(triggerBin, ptLeadStart, ptLeadEnd, ptJetStart, params, iPtLead, sumBal, sumWeight) ==
    IF ~U32Leq(iPtLead, ptLeadEnd.index) THEN [sumBal |-> sumBal, sumWeight |-> sumWeight]
    ELSE LET numEvents == ToUnsigned(GetBinContent(triggerBin.ptLead, iPtLead))
             fraction == InclusionFraction(iPtLead, ptLeadStart, ptLeadEnd)
         IN IF numEvents = 0
            THEN MPFLoop(triggerBin, ptLeadStart, ptLeadEnd, ptJetStart, params,
                         iPtLead + 1, sumBal, sumWeight)
            ELSE MPFLoop(triggerBin, ptLeadStart, ptLeadEnd, ptJetStart, params,
                         iPtLead + 1,
                         DAdd(sumBal, MPFBinTerm(triggerBin, iPtLead, numEvents, fraction,
                                                 ptJetStart, params)),
                         DAdd(sumWeight, DMul(D(numEvents), fraction)))

\* ComputePtBal: the loop over the bins in ptlead, from bin iPtLead on
RECURSIVE PtBalLoop(_, _, _, _, _, _, _, _)
PtBalLoop(triggerBin, ptLeadStart, ptLeadEnd, ptJetStart, params, iPtLead, sumBal, sumWeight) ==
    IF ~U32Leq(iPtLead, ptLeadEnd.index) THEN [sumBal |-> sumBal, sumWeight |-> sumWeight]
    ELSE LET numEvents == ToUnsigned(GetBinContent(triggerBin.ptLead, iPtLead))
             fraction == InclusionFraction(iPtLead, ptLeadStart, ptLeadEnd)
         IN IF numEvents = 0
            THEN PtBalLoop(triggerBin, ptLeadStart, ptLeadEnd, ptJetStart, params,
                           iPtLead + 1, sumBal, sumWeight)
            ELSE PtBalLoop(triggerBin, ptLeadStart, ptLeadEnd, ptJetStart, params,
                           iPtLead + 1,
                           DAdd(sumBal, PtBalBinTerm(triggerBin, iPtLead, numEvents, fraction,
                                                     ptJetStart, params)),
                           DAdd(sumWeight, DMul(D(numEvents), fraction)))

ComputeMPF(triggerBin, ptLeadStart, ptLeadEnd, ptJetStart, params) ==
    LET sums == MPFLoop(triggerBin, ptLeadStart, ptLeadEnd, ptJetStart, params,
                        ptLeadStart.index, Zero, Zero)
    IN DDiv(sums.sumBal, sums.sumWeight)

\* A faulty variant of ComputePtBal: a range without events gives 0
ComputePtBalOrZero(triggerBin, ptLeadStart, ptLeadEnd, ptJetStart, params) ==
    IF PtBalLoop(triggerBin, ptLeadStart, ptLeadEnd, ptJetStart, params,
                 ptLeadStart.index, Zero, Zero).sumWeight = Zero
    THEN Zero
    ELSE DDiv(DNeg(PtBalLoop(triggerBin, ptLeadStart, ptLeadEnd, ptJetStart, params,
                             ptLeadStart.index, Zero, Zero).sumBal),
              PtBalLoop(triggerBin, ptLeadStart, ptLeadEnd, ptJetStart, params,
                        ptLeadStart.index, Zero, Zero).sumWeight)

ComputePtBal(triggerBin, ptLeadStart, ptLeadEnd, ptJetStart, params) ==
    LET sums == PtBalLoop(triggerBin, ptLeadStart, ptLeadEnd, ptJetStart, params,
                          ptLeadStart.index, Zero, Zero)
    IN DDiv(DNeg(sums.sumBal), sums.sumWeight)

---------------------------------------------------------------------------
(* Multijet::Eval *)

Returned(value) == [outcome |-> "returned", value |-> value]

\* A call that ended with an exception ("thrown") or never ends ("hangs")
Failed(outcome) == [outcome |-> outcome, value |-> NaN]

\* uncorrPtBinning: UndoCorr of the lower edges of bins i .. NbinsX + 1
RECURSIVE UncorrPtBinning(_, _, _)
UncorrPtBinning(simEdges, params, i) ==
    IF i > NBins(simEdges) + 1 THEN [outcome |-> "returned", value |-> <<>>]
    ELSE LET pt == GetBinLowEdge(simEdges, i)
             u == UndoCorr(params, pt, DefaultTolerance)
         IN IF u.outcome # "returned" THEN [outcome |-> u.outcome, value |-> <<>>]
            ELSE LET rest == UncorrPtBinning(simEdges, params, i + 1)
                 IN IF rest.outcome # "returned" THEN rest
                    ELSE [outcome |-> "returned", value |-> <<u.value>> \o rest.value]

\* std::map::erase
Erase(binMap, key) == [k \in DOMAIN binMap \ {key} |-> binMap[k]]

\* The bin map of a trigger bin with the under- and overflow bins dropped
InteriorBinMap(triggerBin, binMap) ==
    Erase(Erase(binMap, 0), NBins(triggerBin.simEdges) + 1)

\* A faulty variant of PtJetStart: the position is measured from the centre
\* of the bin
PtJetStartFromCentre(triggerBin, minPtUncorr) ==
    LET minPtBin == FindFixBin(triggerBin.ptJetEdges, minPtUncorr)
        minPtFrac == DDiv(DSub(minPtUncorr, GetBinCenter(triggerBin.ptJetEdges, minPtBin)),
                          GetBinWidth(triggerBin.ptJetEdges, minPtBin))
    IN FracBin(minPtBin, DSub(One, minPtFrac))

\* ptJetStart: the bin in pt of other jets that contains minPtUncorr
PtJetStart(triggerBin, minPtUncorr) ==
    LET minPtBin == FindFixBin(triggerBin.ptJetEdges, minPtUncorr)
        minPtFrac == DDiv(DSub(minPtUncorr, GetBinLowEdge(triggerBin.ptJetEdges, minPtBin)),
                          GetBinWidth(triggerBin.ptJetEdges, minPtBin))
    IN FracBin(minPtBin, DSub(One, minPtFrac))

\* meanBal for a range of the bin map
MeanBal(meth, triggerBin, binRange, ptJetStart, params) ==
    IF meth = "PtBal"
    THEN ComputePtBal(triggerBin, binRange[1], binRange[2], ptJetStart, params)
    ELSE ComputeMPF(triggerBin, binRange[1], binRange[2], ptJetStart, params)

\* The term that entry binIndex of the bin map adds to chi2
Chi2Term(meth, triggerBin, binIndex, binRange, ptJetStart, params) ==
    LET meanBal == MeanBal(meth, triggerBin, binRange, ptJetStart, params)
        simMeanBal == GetBinContent(triggerBin.simBalProfile, binIndex)
    IN DDiv(DSquare(DSub(meanBal, simMeanBal)), At(triggerBin.totalUnc2, binIndex - 1))

Min(S) == CHOOSE x \in S : \A y \in S : x <= y

\* The loop over the entries of the bin map, in the order of their keys
RECURSIVE Chi2Loop(_, _, _, _, _, _, _)
Chi2Loop(meth, triggerBin, binMap, keys, ptJetStart, params, chi2) ==
    IF keys = {} THEN chi2
    ELSE LET binIndex == Min(keys)
         IN Chi2Loop(meth, triggerBin, binMap, keys \ {binIndex}, ptJetStart, params,
                     DAdd(chi2, Chi2Term(meth, triggerBin, binIndex, binMap[binIndex],
                                         ptJetStart, params)))

\* The chi2 loop of a trigger bin, for its bin map with the outer bins dropped
Chi2OfBinMap(meth, triggerBin, binMap, minPtUncorr, params, chi2) ==
    Returned(Chi2Loop(meth, triggerBin, binMap, DOMAIN binMap,
                      PtJetStart(triggerBin, minPtUncorr), params, chi2))

\* A faulty variant of AfterMapBinning: a trigger bin whose MapBinning throws is skipped
AfterMapBinningSkipping(meth, triggerBin, mapped, minPtUncorr, params, chi2) ==
    IF mapped.thrown THEN Returned(chi2)
    ELSE Chi2OfBinMap(meth, triggerBin, InteriorBinMap(triggerBin, mapped.binMap),
                      minPtUncorr, params, chi2)

\* The body of the loop over the trigger bins after the call of MapBinning
AfterMapBinning(meth, triggerBin, mapped, minPtUncorr, params, chi2) ==
    IF mapped.thrown THEN Failed("thrown")
    ELSE Chi2OfBinMap(meth, triggerBin, InteriorBinMap(triggerBin, mapped.binMap),
                      minPtUncorr, params, chi2)

\* The body of the loop over the trigger bins after uncorrPtBinning is filled
AfterUncorrPtBinning(meth, triggerBin, uncorr, minPtUncorr, params, chi2) ==
    IF uncorr.outcome # "returned" THEN Failed(uncorr.outcome)
    ELSE AfterMapBinning(meth, triggerBin, MapBinning(triggerBin.binning, uncorr.value),
                         minPtUncorr, params, chi2)

\* The body of the loop over the trigger bins: chi2 after this trigger bin
EvalTriggerBin(meth, triggerBin, minPtUncorr, params, chi2) ==
    AfterUncorrPtBinning(meth, triggerBin,
                         UncorrPtBinning(triggerBin.simEdges, params, 1),
                         minPtUncorr, params, chi2)

\* The loop over the trigger bins, from trigger bin i on; after is the outcome
\* of the body for trigger bin i - 1
RECURSIVE EvalLoop(_, _, _, _, _, _)
EvalLoop(meth, bins, minPtUncorr, params, i, after) ==
    IF after.outcome # "returned" \/ i > Len(bins) THEN after
    ELSE EvalLoop(meth, bins, minPtUncorr, params, i + 1,
                  EvalTriggerBin(meth, bins[i], minPtUncorr, params, after.value))

\* Multijet::Eval after the call of UndoCorr for minPt
AfterMinPtUncorr(meth, bins, minPtUncorr, params) ==
    IF minPtUncorr.outcome # "returned" THEN Failed(minPtUncorr.outcome)
    ELSE EvalLoop(meth, bins, minPtUncorr.value, params, 1, Returned(Zero))

\* Multijet::Eval(corrector, nuisances)
MultijetEval(meth, bins, minimalPt, params) ==
    AfterMinPtUncorr(meth, bins, UndoCorr(params, minimalPt, DefaultTolerance), params)

---------------------------------------------------------------------------
(* Bounds and inputs *)

\* Largest number of trigger bins of a Multijet object
MaxTriggerBins == 2

\* Largest number of edges of a source binning passed to MapBinning
MaxSourceLen == 3

\* Largest number of edges of a target binning passed to MapBinning
MaxTargetLen == 3

\* The source edges passed to MapBinning lie at 0 .. MaxGrid grid steps
MaxGrid == 2

\* Values a parameter of the corrector takes: factors of 1/2, 1 and 2
ParamValues == {Rat(-1, 2), Zero, One}

AllParams == [1 .. NumParams -> ParamValues]

\* The correctors that UndoCorr is called on alone: also with a factor of 1/4
UndoParams == [1 .. NumParams -> ParamValues \cup {Rat(-3, 4)}]

Identity == [i \in 1 .. NumParams |-> Zero]

\* Parameter vectors of a wrong length: too long, too short
WrongParams == <<Zero>> \o Identity

ShortParams == <<One>>

\* Values of pt and exponents of the tolerance given to UndoCorr
UndoPts == {D(1), D(2), D(4), D(8), Rat(3, 2), D(6)}

UndoTolerances == {1, DefaultTolerance}

\* One grid step of the edges given to MapBinning, in units so small that a
\* shift of an edge by one unit is below the tolerance of MapBinning
GridStep == 2 * 10 * 1000 * 1000

GridPositions == {k * GridStep : k \in 0 .. MaxGrid}

\* Edges on the grid, one unit off the grid, and a quarter and a half of a
\* grid step above the grid
EdgePositions ==
    UNION {{g - 1, g, g + 1, g + (GridStep \div 4), g + (GridStep \div 2)} :
              g \in GridPositions}

Doubles(s) == [i \in DOMAIN s |-> D(s[i])]

Increasing(S, n) == {s \in [1 .. n -> S] : \A i \in 1 .. n - 1 : s[i] < s[i + 1]}

NonDecreasing(S, n) == {s \in [1 .. n -> S] : \A i \in 1 .. n - 1 : s[i] <= s[i + 1]}

SourceBinnings ==
    UNION {{Doubles(s) : s \in NonDecreasing(GridPositions, n)} : n \in 2 .. MaxSourceLen}

TargetBinnings ==
    UNION {{Doubles(s) : s \in Increasing(EdgePositions, n)} : n \in 2 .. MaxTargetLen}

\* The data histograms of the trigger bins: three bins in pt of the leading
\* jet, two bins in pt of the other jets
PtLeadEdges == <<D(2), D(4), D(6), D(8)>>

PtLead == <<Zero, D(5), D(3), D(2), Zero>>

\* The same with an empty bin, and events in the overflow
PtLeadWithGap == <<Zero, D(5), Zero, D(2), D(1)>>

\* The mean pt of the leading jet in a bin lies in the bin
PtLeadProfile == <<D(1), D(3), D(5), D(7), D(9)>>

BalProfile == <<Zero, Rat(1, 2), Rat(3, 4), One, Zero>>

PtJetEdges == <<D(1), D(2), D(4)>>

PtJetSumProj == [i \in 1 .. 5 |-> <<One, D(0 - i), D(0 - 2 * i), One>>]

\* The simulation profiles: edges, contents, errors, errors of the rebinned
\* data profile
SimProfile ==
    [edges |-> <<D(2), D(4), D(8)>>, content |-> <<Zero, Rat(1, 2), One, Zero>>,
     error |-> <<Zero, D(1), D(2), D(1)>>, rebinned |-> <<Zero, D(1), D(1), D(2)>>]

SimProfiles ==
    {SimProfile,
     [edges |-> <<D(3), D(7)>>, content |-> <<Zero, Rat(3, 4), Zero>>,
      error |-> <<Zero, D(1), D(2)>>, rebinned |-> <<Zero, D(2), D(1)>>],
     [edges |-> <<D(2), D(10)>>, content |-> <<Zero, One, Zero>>,
      error |-> <<Zero, D(1), D(1)>>, rebinned |-> <<Zero, D(1), D(1)>>],
     [edges |-> <<D(1), D(4)>>, content |-> <<Zero, One, Zero>>,
      error |-> <<Zero, Zero, D(1)>>, rebinned |-> <<Zero, Zero, D(1)>>]}

TriggerBinChoices ==
    {TriggerBin(PtLeadEdges, PtLead, PtLeadProfile, BalProfile, PtJetEdges, PtJetSumProj,
                sim.edges, sim.content, sim.error, sim.rebinned) :
        sim \in SimProfiles}

\* The trigger bins given to ComputeMPF and ComputePtBal
ComputeBins ==
    {TriggerBin(PtLeadEdges, ptLead, PtLeadProfile, BalProfile, PtJetEdges, PtJetSumProj,
                SimProfile.edges, SimProfile.content, SimProfile.error, SimProfile.rebinned) :
        ptLead \in {PtLead, PtLeadWithGap}}

\* The trigger bins of an input file: one per directory, no two alike
TriggerBinLists ==
    {bins \in UNION {[1 .. n -> TriggerBinChoices] : n \in 1 .. MaxTriggerBins} :
        \A i, j \in 1 .. Len(bins) : bins[i] = bins[j] => i = j}

MinPts == {Rat(3, 2), D(2)}

Methods == {"PtBal", "MPF"}

\* Ranges given to ComputeMPF and ComputePtBal
LeadStarts == {FracBin(i, f) : i \in 0 .. NBins(PtLeadEdges) + 1, f \in {Rat(1, 2), One}}

LeadEnds == {FracBin(i, f) : i \in 0 .. NBins(PtLeadEdges) + 1, f \in {Rat(1, 2), One}}

JetStarts == {FracBin(i, f) : i \in 0 .. NBins(PtJetEdges) + 1, f \in {Rat(1, 2), One}}

---------------------------------------------------------------------------
(* States in which a part of the program is not in use *)

NoCall == [outcome |-> "none", value |-> NaN]

\* No call of Eval yet; a call is recorded with the parameters its corrector had
NoEval == [corrector |-> <<>>, outcome |-> "none", value |-> NaN]

EvalRecord(params, result) ==
    [corrector |-> params, outcome |-> result.outcome, value |-> result.value]

NoMap == [outcome |-> "none", binMap |-> <<>>]

CorrIdle == parameters = Identity /\ setParamsThrew = FALSE

UndoIdle ==
    /\ undoPc = "idle" /\ undoPt = Zero /\ undoTol = 0 /\ ptUncorr = Zero /\ iter = 0

MapIdle == mapSource = <<>> /\ mapTarget = <<>> /\ mapResult = NoMap

CmpIdle == cmpBin = <<>> /\ cmpRange = <<>> /\ cmpResult = NoCall

EvalIdle ==
    /\ method = "PtBal" /\ triggerBins = <<>> /\ minPt = Zero
    /\ dimensionality = 0 /\ evalResult = NoEval

NoForm == [form |-> "none", pt |-> Zero, pars |-> <<>>, outcome |-> "none", value |-> Zero]

NoEvent == [outcome |-> "none", jets |-> <<>>]

L3Idle ==
    /\ l3Pc = "none" /\ type = "none" /\ func = "none" /\ degree = 0 /\ l3Call = NoForm

PluginIdle == ptJ1Thresholds = <<>> /\ pluginBin = 0 /\ processed = NoEvent

NoFilterCall == [op |-> "none", outcome |-> "none", decision |-> FALSE, weight |-> 0]

FilterCall(op, outcome, decision, weight) ==
    [op |-> op, outcome |-> outcome, decision |-> decision, weight |-> weight]

FilterIdle ==
    /\ filterPc = "none" /\ triggers = <<>> /\ isMC = FALSE
    /\ requestedTriggerIndex = 0 /\ filterCall = NoFilterCall

NoOutput == outTrees = <<>> /\ outCounts = <<>> /\ outputFiles = <<>>

PartIdle == partPc = "none" /\ runs = <<>> /\ srcRuns = <<>> /\ iEntry = 0 /\ NoOutput

FitIdle == CorrIdle /\ UndoIdle /\ MapIdle /\ CmpIdle /\ EvalIdle

ToolsIdle == L3Idle /\ PluginIdle /\ FilterIdle /\ PartIdle

---------------------------------------------------------------------------
(* Calls of JetCorrBase::SetParams and JetCorrBase::UndoCorr *)

\* corrector.SetParams(newParams)
SetParams(newParams) ==
    /\ undoPc # "loop"
    /\ parameters' = SetParamsResult(parameters, newParams)
    /\ setParamsThrew' = SetParamsRejects(parameters, newParams)

\* corrector.UndoCorr(pt, tolerance) is entered: the code before the loop
UndoCall(pt, tolerance) ==
    /\ undoPc # "loop"
    /\ undoPc' = "loop"
    /\ undoPt' = pt
    /\ undoTol' = tolerance
    /\ iter' = 0
    /\ ptUncorr' = UndoSeed(parameters, pt)

\* One pass of the loop of UndoCorr
UndoStep ==
    /\ undoPc = "loop"
    /\ IF UndoConverged(parameters, undoPt, undoTol, ptUncorr)
       THEN /\ undoPc' = "returned"
            /\ UNCHANGED <<ptUncorr, iter>>
       ELSE /\ ptUncorr' = UndoUpdate(parameters, undoPt, ptUncorr)
            /\ undoPc' = IF UndoExceeded(iter) THEN "thrown" ELSE "loop"
            /\ UNCHANGED iter
    /\ UNCHANGED <<undoPt, undoTol>>
    /\ UNCHANGED <<corrVars, mapVars, cmpVars, evalVars, toolVars>>

InitUndo ==
    /\ parameters \in UndoParams
    /\ setParamsThrew = FALSE
    /\ UndoIdle /\ MapIdle /\ CmpIdle /\ EvalIdle /\ ToolsIdle

NextUndo ==
    \/ \E pt \in UndoPts, tolerance \in UndoTolerances :
          UndoCall(pt, tolerance)
          /\ UNCHANGED <<corrVars, mapVars, cmpVars, evalVars, toolVars>>
    \/ UndoStep

SpecUndo == InitUndo /\ [][NextUndo]_vars

\* The program is single-threaded and runs on: a loop that can make a pass
\* makes it.
FairSpecUndo == SpecUndo /\ WF_vars(UndoStep)

---------------------------------------------------------------------------
(* Calls of Multijet::MapBinning *)

CallMapBinning ==
    /\ mapResult.outcome = "none"
    /\ mapResult' =
          LET r == MapBinning(mapSource, mapTarget)
          IN [outcome |-> IF r.thrown THEN "thrown" ELSE "returned", binMap |-> r.binMap]
    /\ UNCHANGED <<mapSource, mapTarget>>

InitMap ==
    /\ mapSource \in SourceBinnings
    /\ mapTarget \in TargetBinnings
    /\ mapResult = NoMap
    /\ CorrIdle /\ UndoIdle /\ CmpIdle /\ EvalIdle /\ ToolsIdle

NextMap == CallMapBinning /\ UNCHANGED <<corrVars, undoVars, cmpVars, evalVars, toolVars>>

SpecMap == InitMap /\ [][NextMap]_vars

---------------------------------------------------------------------------
(* Calls of Multijet::ComputeMPF and Multijet::ComputePtBal *)

CallComputeMPF ==
    /\ cmpResult.outcome = "none"
    /\ cmpResult' = [outcome |-> "MPF",
                     value |-> ComputeMPF(cmpBin, cmpRange[1], cmpRange[2], cmpRange[3],
                                          parameters)]
    /\ UNCHANGED <<cmpBin, cmpRange>>

CallComputePtBal ==
    /\ cmpResult.outcome = "none"
    /\ cmpResult' = [outcome |-> "PtBal",
                     value |-> ComputePtBal(cmpBin, cmpRange[1], cmpRange[2], cmpRange[3],
                                            parameters)]
    /\ UNCHANGED <<cmpBin, cmpRange>>

InitCompute ==
    /\ parameters \in AllParams
    /\ setParamsThrew = FALSE
    /\ cmpBin \in ComputeBins
    /\ cmpRange \in LeadStarts \X LeadEnds \X JetStarts
    /\ cmpResult = NoCall
    /\ UndoIdle /\ MapIdle /\ EvalIdle /\ ToolsIdle

NextCompute ==
    \/ CallComputeMPF /\ UNCHANGED <<corrVars, undoVars, mapVars, evalVars, toolVars>>
    \/ CallComputePtBal /\ UNCHANGED <<corrVars, undoVars, mapVars, evalVars, toolVars>>

SpecCompute == InitCompute /\ [][NextCompute]_vars

---------------------------------------------------------------------------
(* The Multijet object: construction, SetParams on its corrector, Eval *)

\* A faulty variant of CallEval: the value of the first call is kept and
\* returned by the later calls
CallEvalCached ==
    /\ evalResult' = IF evalResult.outcome = "none"
                     THEN EvalRecord(parameters,
                                     MultijetEval(method, triggerBins, minPt, parameters))
                     ELSE EvalRecord(parameters, evalResult)
    /\ UNCHANGED <<method, triggerBins, minPt, dimensionality>>

\* lossFunc.Eval(corrector, nuisances)
CallEval ==
    /\ evalResult' = EvalRecord(parameters,
                                MultijetEval(method, triggerBins, minPt, parameters))
    /\ UNCHANGED <<method, triggerBins, minPt, dimensionality>>

\* Multijet::Multijet(fileName, method, minPt), and a corrector as constructed
Init ==
    /\ method \in Methods
    /\ triggerBins \in TriggerBinLists
    /\ minPt \in MinPts
    /\ dimensionality = Dimensionality(triggerBins)
    /\ evalResult = NoEval
    /\ CorrIdle /\ UndoIdle /\ MapIdle /\ CmpIdle /\ ToolsIdle

Next ==
    \/ \E newParams \in AllParams \cup {WrongParams, ShortParams} :
          SetParams(newParams)
          /\ UNCHANGED <<undoVars, mapVars, cmpVars, evalVars, toolVars>>
    \/ CallEval /\ UNCHANGED <<corrVars, undoVars, mapVars, cmpVars, toolVars>>

Spec == Init /\ [][Next]_vars

---------------------------------------------------------------------------
(* L3Corr and MultijetFOM (Analysis/MultijetFOM.cpp) *)

\* enum class L3Corr::Type.  "Other" stands for a value of the enumeration
\* type that is none of its enumerators.
Types == {"Linear", "LogLinear", "Polynomial"}

Tags == Types \cup {"Other"}

\* L3Corr::refPt as the constructor sets it
refPt == D(1000)

\* std::log.  The exact properties are kept: log(1) = 0, the sign, the
\* monotony, log(0) = -inf, NaN below zero.  Elsewhere the value is the
\* first term of the series log x = 2 (z + z^3/3 + ...), z = (x - 1)/(x + 1).
Log(x) ==
    IF IsNaN(x) THEN NaN
    ELSE IF x.k = "inf" THEN (IF x.n > 0 THEN PosInf ELSE NaN)
    ELSE IF x.n < 0 THEN NaN
    ELSE IF x.n = 0 THEN NegInf
    ELSE DMul(D(2), DDiv(DSub(x, One), DAdd(x, One)))

Linear(pt, pars) == DAdd(One, DMul(At(pars, 0), DSub(pt, refPt)))

LogLinear(pt, pars) == DAdd(One, DMul(At(pars, 0), Log(DDiv(pt, refPt))))

\* A faulty variant of Polynomial: the powers start from the zeroth
RECURSIVE PolynomialFromZeroLoop(_, _, _, _, _, _)
PolynomialFromZeroLoop(x, pars, deg, i, xn, sum) ==
    IF i < deg
    THEN PolynomialFromZeroLoop(x, pars, deg, i + 1, DMul(xn, x),
                                DAdd(sum, DMul(At(pars, i), xn)))
    ELSE sum

PolynomialFromZero(pt, pars, deg) ==
    PolynomialFromZeroLoop(DSub(pt, refPt), pars, deg, 0, One, One)

\* The loop of L3Corr::Polynomial from index i on
RECURSIVE PolynomialLoop(_, _, _, _, _, _)
PolynomialLoop(x, pars, deg, i, xn, sum) ==
    IF i < deg
    THEN PolynomialLoop(x, pars, deg, i + 1, DMul(xn, x),
                        DAdd(sum, DMul(At(pars, i), DMul(xn, x))))
    ELSE sum

Polynomial(pt, pars, deg) == PolynomialLoop(DSub(pt, refPt), pars, deg, 0, One, One)

\* The number of elements of pars that a functional form reads
ParamsRead(form, deg) == IF form = "Polynomial" THEN deg ELSE 1

\* (this->*func)(pt, pars) where pars points to an array with all the
\* elements that func reads
FormValue(form, pt, pars, deg) ==
    CASE form = "Linear" -> Linear(pt, pars)
      [] form = "LogLinear" -> LogLinear(pt, pars)
      [] form = "Polynomial" -> Polynomial(pt, pars, deg)

\* What a read past the end of the array can give
Indeterminate == {Zero, One, NaN}

\* The values that (this->*func)(pt, pars) can return
FormValues(form, pt, pars, deg) ==
    IF ParamsRead(form, deg) <= Len(pars)
    THEN {FormValue(form, pt, pars, deg)}
    ELSE Indeterminate

FormRecord(form, pt, pars, deg, v) ==
    [form |-> form, pt |-> pt, pars |-> pars,
     outcome |-> IF ParamsRead(form, deg) <= Len(pars) THEN "returned" ELSE "undefined",
     value |-> v]

\* A faulty variant of GetNumParameters: the degree for every form but Linear
GetNumParametersByDegree(t, deg) == IF t = "Linear" THEN 1 ELSE deg

\* L3Corr::GetNumParameters
GetNumParameters(t, deg) ==
    CASE t = "Linear" -> 1
      [] t = "LogLinear" -> 1
      [] t = "Polynomial" -> deg
      [] OTHER -> 0

\* MultijetFOM::GetDim
MultijetFOMGetDim(t, deg) == GetNumParameters(t, deg)

\* Whether SetType(t) throws
SetTypeThrows(t) == t \notin {"Linear", "LogLinear"}

\* L3Corr::func and L3Corr::degree after SetType(t)
SetTypeFunc(t, oldFunc) == IF SetTypeThrows(t) THEN oldFunc ELSE t

SetTypeDegree(t, oldDegree) == IF t = "Linear" THEN 1 ELSE oldDegree

---------------------------------------------------------------------------
(* The programs Analysis/fit.cpp and Analysis/scanChi2.cpp: an L3Corr is *)
(* constructed, a MultijetFOM refers to it, and the minimizer (or the scan) *)
(* evaluates it with an array of GetDim() parameters.  No exception is *)
(* caught in these programs: a throw ends the run. *)

MaxDegree == 2

\* Values of pt and of the parameters given to L3Corr
L3Pts == {refPt, D(900), D(990), D(1010), D(1100)}

L3ParamValues == {Zero, D(1), D(-1), Rat(1, 1000)}

ParsOfLength(n) == [1 .. n -> L3ParamValues]

\* L3Corr corrector(t): the members func and degree hold indeterminate
\* values until SetType assigns them
Construct(t) ==
    /\ l3Pc = "none"
    /\ type' = t
    /\ func' = SetTypeFunc(t, "none")
    /\ \E indeterminate \in 0 .. MaxDegree : degree' = SetTypeDegree(t, indeterminate)
    /\ l3Pc' = IF SetTypeThrows(t) THEN "terminated" ELSE "constructed"
    /\ UNCHANGED l3Call

\* corrector.SetType(t)
SetType(t) ==
    /\ l3Pc = "constructed"
    /\ type' = t
    /\ func' = SetTypeFunc(t, func)
    /\ degree' = SetTypeDegree(t, degree)
    /\ l3Pc' = IF SetTypeThrows(t) THEN "terminated" ELSE "constructed"
    /\ UNCHANGED l3Call

\* fom(pars) with an array of fom.GetDim() elements: one evaluation
\* corrector(pt, pars) inside MultijetFOM::operator()
CallCorrector(pt) ==
    /\ l3Pc = "constructed"
    /\ \E pars \in ParsOfLength(MultijetFOMGetDim(type, degree)) :
          \E v \in FormValues(func, pt, pars, degree) :
             l3Call' = FormRecord(func, pt, pars, degree, v)
    /\ UNCHANGED <<l3Pc, type, func, degree>>

InitL3 == FitIdle /\ ToolsIdle

NextL3 ==
    \/ \E t \in Tags : Construct(t) /\ UNCHANGED <<fitVars, pluginVars, filterVars, partVars>>
    \/ \E t \in Tags : SetType(t) /\ UNCHANGED <<fitVars, pluginVars, filterVars, partVars>>
    \/ \E pt \in L3Pts : CallCorrector(pt) /\ UNCHANGED <<fitVars, pluginVars, filterVars, partVars>>

SpecL3 == InitL3 /\ [][NextL3]_vars

---------------------------------------------------------------------------
(* The functional forms of L3Corr as functions of pt, pars and the member *)
(* degree, each applied to arrays that hold the elements it reads *)

ParsOfLengthFrom(n) == UNION {ParsOfLength(m) : m \in n .. MaxDegree}

\* One application of a form to one input
ApplyForm(form, pt, pars) ==
    /\ l3Call = NoForm
    /\ l3Call' = FormRecord(form, pt, pars, degree, FormValue(form, pt, pars, degree))
    /\ UNCHANGED <<l3Pc, type, func, degree>>

ApplyLinear == \E pt \in L3Pts, pars \in ParsOfLengthFrom(1) : ApplyForm("Linear", pt, pars)

ApplyLogLinear ==
    \E pt \in L3Pts, pars \in ParsOfLengthFrom(1) : ApplyForm("LogLinear", pt, pars)

ApplyPolynomial ==
    \E pt \in L3Pts, pars \in ParsOfLengthFrom(degree) : ApplyForm("Polynomial", pt, pars)

InitForms ==
    /\ l3Pc = "none" /\ type = "none" /\ func = "none" /\ l3Call = NoForm
    /\ degree \in 0 .. MaxDegree
    /\ FitIdle /\ PluginIdle /\ FilterIdle /\ PartIdle

NextForms ==
    \/ ApplyLinear /\ UNCHANGED <<fitVars, pluginVars, filterVars, partVars>>
    \/ ApplyLogLinear /\ UNCHANGED <<fitVars, pluginVars, filterVars, partVars>>
    \/ ApplyPolynomial /\ UNCHANGED <<fitVars, pluginVars, filterVars, partVars>>

SpecForms == InitForms /\ [][NextForms]_vars

---------------------------------------------------------------------------
(* The TriggerBin plugin (mensura/plugins/TriggerBin.cpp) *)

\* std::sort of a vector of doubles
RECURSIVE Insert(_, _)
Insert(sorted, x) ==
    IF sorted = <<>> THEN <<x>>
    ELSE IF DLess(x, Head(sorted)) THEN <<x>> \o sorted
    ELSE <<Head(sorted)>> \o Insert(Tail(sorted), x)

RECURSIVE Sort(_)
Sort(s) == IF s = <<>> THEN <<>> ELSE Insert(Sort(Tail(s)), Head(s))

\* std::distance(begin, std::lower_bound(begin, end, value)) from index i on:
\* the 0-based index of the first element that is not less than value
RECURSIVE LowerBound(_, _, _)
LowerBound(s, value, i) ==
    IF i < Len(s) /\ DLess(At(s, i), value) THEN LowerBound(s, value, i + 1) ELSE i

\* TriggerBin::GetNumTriggerBins
GetNumTriggerBins(thresholds) == Len(thresholds) + 1

\* TriggerBin::GetTriggerBin
GetTriggerBin(bin) == bin

\* Whether ProcessEvent accepts an event with the given jets
Accepts(thresholds, jets) == Len(jets) # 0 /\ ~DLess(At(jets, 0), At(thresholds, 0))

MaxThresholds == 2

MaxJets == 2

ThresholdValues == {D(200), D(300), D(400)}

JetPts == {D(100), D(200), D(250), D(300), D(400), D(500)}

SeqsUpTo(S, n) == UNION {[1 .. m -> S] : m \in 0 .. n}

\* The jets of an event, ordered in pt as the reader gives them
JetLists ==
    {jets \in SeqsUpTo(JetPts, MaxJets) :
        \A i \in 1 .. Len(jets) - 1 : DLeq(jets[i + 1], jets[i])}

\* TriggerBin::ProcessEvent for an event with the given jets
ProcessEvent(jets) ==
    /\ processed' = [outcome |-> IF Accepts(ptJ1Thresholds, jets) THEN "accepted" ELSE "rejected",
                     jets |-> jets]
    /\ pluginBin' = IF Accepts(ptJ1Thresholds, jets)
                    THEN LowerBound(ptJ1Thresholds, At(jets, 0), 0)
                    ELSE pluginBin
    /\ UNCHANGED ptJ1Thresholds

\* TriggerBin::TriggerBin(name, thresholds) for a list that is not empty: the
\* thresholds are sorted, the member triggerBin is left unassigned
InitPlugin ==
    /\ \E given \in SeqsUpTo(ThresholdValues, MaxThresholds) \ {<<>>} :
          ptJ1Thresholds = Sort(given)
    /\ pluginBin \in 0 .. MaxThresholds
    /\ processed = NoEvent
    /\ FitIdle /\ L3Idle /\ FilterIdle /\ PartIdle

NextPlugin ==
    \E jets \in JetLists : ProcessEvent(jets) /\ UNCHANGED <<fitVars, l3Vars, filterVars, partVars>>

SpecPlugin == InitPlugin /\ [][NextPlugin]_vars

---------------------------------------------------------------------------
(* The DynamicTriggerFilter plugin (mensura/plugins/DynamicTriggerFilter.cpp), *)
(* run after the TriggerBin plugin: an event that TriggerBin rejects is not *)
(* given to the filter.  A trigger is its name, its integrated luminosity *)
(* and the buffer that the trigger tree writes the decision into. *)

MaxTriggers == 2

Trigger(name, intLumi) == [name |-> name, intLumi |-> intLumi, buffer |-> FALSE]

\* The triggers given to the constructor: the first may be the trivial
\* selection "1", the others are triggers whose decisions are read
TriggerLists ==
    {[i \in 1 .. n |-> Trigger(IF i = 1 THEN first ELSE "PFJet", 10 * i)] :
        n \in 1 .. MaxTriggers, first \in {"1", "PFJet"}}

\* The events that the filter is run on: no jet, or a leading jet
FilterEvents == {jets \in JetLists : Len(jets) <= 1}

\* The check of BeginRun on the number of triggers
ConfigurationAccepted(trigs, thresholds) == Len(trigs) = GetNumTriggerBins(thresholds) - 1

\* The position of the first trigger whose branch BeginRun looks up, or
\* Len(trigs) + 1 if there is none
RECURSIVE FirstBranch(_, _)
FirstBranch(trigs, i) ==
    IF i > Len(trigs) \/ trigs[i].name # "1" THEN i ELSE FirstBranch(trigs, i + 1)

\* The loop of BeginRun over the triggers: the buffer of a trivial selection
\* is set to true; the loop ends at the first trigger whose branch is missing
SetUpBranches(trigs, stored) ==
    [i \in DOMAIN trigs |->
        IF trigs[i].name = "1" /\ (stored \/ i < FirstBranch(trigs, 1))
        THEN [trigs[i] EXCEPT !.buffer = TRUE]
        ELSE trigs[i]]

\* DynamicTriggerFilter::BeginRun(dataset) for a trigger tree that stores
\* the decisions of the triggers, or of none of them
FilterBeginRun(datasetIsMC, stored) ==
    /\ filterPc = "constructed"
    /\ isMC' = datasetIsMC
    /\ IF ~ConfigurationAccepted(triggers, ptJ1Thresholds)
       THEN filterPc' = "terminated" /\ UNCHANGED triggers
       ELSE /\ triggers' = SetUpBranches(triggers, stored)
            /\ filterPc' = IF stored \/ FirstBranch(triggers, 1) > Len(triggers)
                           THEN "running" ELSE "terminated"
    /\ UNCHANGED <<requestedTriggerIndex, filterCall>>

\* TriggerBin::ProcessEvent on the next event of the run
NextEvent(jets) ==
    /\ filterPc = "running"
    /\ ProcessEvent(jets)
    /\ filterCall' = NoFilterCall
    /\ UNCHANGED <<filterPc, triggers, isMC, requestedTriggerIndex>>

\* inputDataPlugin->ReadEventFromTree: the decisions are written into the
\* buffers of the triggers that have a branch
ReadEventFromTree(trigs, decisions) ==
    [i \in DOMAIN trigs |->
        IF trigs[i].name = "1" THEN trigs[i] ELSE [trigs[i] EXCEPT !.buffer = decisions[i]]]

\* std::vector::at: whether the 32-bit unsigned index is in range
AtInRange(trigs, index) == U32LessSize(index, Len(trigs))

\* DynamicTriggerFilter::ProcessEvent on an event that TriggerBin accepted
FilterProcessEvent(decisions) ==
    /\ filterPc = "running"
    /\ processed.outcome = "accepted"
    /\ filterCall = NoFilterCall
    /\ triggers' = ReadEventFromTree(triggers, decisions)
    /\ requestedTriggerIndex' = GetTriggerBin(pluginBin) - 1
    /\ IF AtInRange(triggers', requestedTriggerIndex')
       THEN /\ filterCall' = FilterCall("ProcessEvent", "returned",
                                        At(triggers', requestedTriggerIndex').buffer, 0)
            /\ UNCHANGED filterPc
       ELSE /\ filterCall' = FilterCall("ProcessEvent", "thrown", FALSE, 0)
            /\ filterPc' = "terminated"
    /\ UNCHANGED isMC

\* DynamicTriggerFilter::GetWeight, for an event that has passed the filter
FilterGetWeight ==
    /\ filterPc = "running"
    /\ filterCall = FilterCall("ProcessEvent", "returned", TRUE, 0)
    /\ IF ~isMC
       THEN filterCall' = FilterCall("GetWeight", "returned", TRUE, 1)
            /\ UNCHANGED filterPc
       ELSE IF AtInRange(triggers, requestedTriggerIndex)
       THEN filterCall' = FilterCall("GetWeight", "returned", TRUE,
                                     At(triggers, requestedTriggerIndex).intLumi)
            /\ UNCHANGED filterPc
       ELSE filterCall' = FilterCall("GetWeight", "thrown", TRUE, 0)
            /\ filterPc' = "terminated"
    /\ UNCHANGED <<triggers, isMC, requestedTriggerIndex>>

\* TriggerBin(thresholds) and DynamicTriggerFilter(triggers) as constructed:
\* the members triggerBin, isMC and requestedTriggerIndex are unassigned
InitFilter ==
    /\ \E given \in SeqsUpTo(ThresholdValues, MaxThresholds) \ {<<>>} :
          ptJ1Thresholds = Sort(given)
    /\ pluginBin \in 0 .. MaxThresholds
    /\ processed = NoEvent
    /\ filterPc = "constructed"
    /\ triggers \in TriggerLists
    /\ isMC \in BOOLEAN
    /\ requestedTriggerIndex \in {0, UMinusOne}
    /\ filterCall = NoFilterCall
    /\ FitIdle /\ L3Idle /\ PartIdle

NextFilter ==
    \/ \E datasetIsMC, stored \in BOOLEAN :
          FilterBeginRun(datasetIsMC, stored)
          /\ UNCHANGED <<fitVars, l3Vars, pluginVars, partVars>>
    \/ \E jets \in FilterEvents : NextEvent(jets) /\ UNCHANGED <<fitVars, l3Vars, partVars>>
    \/ \E decisions \in [DOMAIN triggers -> BOOLEAN] :
          FilterProcessEvent(decisions)
          /\ UNCHANGED <<fitVars, l3Vars, pluginVars, partVars>>
    \/ FilterGetWeight /\ UNCHANGED <<fitVars, l3Vars, pluginVars, partVars>>

SpecFilter == InitFilter /\ [][NextFilter]_vars

---------------------------------------------------------------------------
(* PartitionFile (events/prog/partition_runs.cpp).  The input file is the *)
(* list of the run numbers of its entries; an output tree is the list of *)
(* the (0-based) input entries filled into it.  The steps that end the *)
(* program (unexpected file name, unreadable file, no trees) are left out. *)

\* A faulty variant of UpperBound: the first element not less than value
RECURSIVE LowerBoundOfRuns(_, _, _)
LowerBoundOfRuns(s, value, i) ==
    IF i < Len(s) /\ At(s, i) < value THEN LowerBoundOfRuns(s, value, i + 1) ELSE i

\* std::upper_bound(begin, end, value) - begin from index i on: the 0-based
\* index of the first element that is greater than value
RECURSIVE UpperBound(_, _, _)
UpperBound(s, value, i) ==
    IF i < Len(s) /\ At(s, i) <= value THEN UpperBound(s, value, i + 1) ELSE i

\* std::is_sorted, as main requires of the run boundaries
IsSorted(s) == \A i \in 1 .. Len(s) - 1 : s[i] <= s[i + 1]

MaxRuns == 2

MaxEntries == 3

RunNumbers == {1, 2, 3}

RunLists == {s \in SeqsUpTo(RunNumbers, MaxRuns) \ {<<>>} : IsSorted(s)}

InputFiles == SeqsUpTo(RunNumbers, MaxEntries)

\* PartitionFile up to the loop over the entries: one output file per
\* partition, with empty clones of the trees
OpenOutputs ==
    /\ partPc = "none"
    /\ partPc' = "copy"
    /\ outputFiles' = [i \in 1 .. Len(runs) + 1 |-> "open"]
    /\ outTrees' = [i \in 1 .. Len(runs) + 1 |-> <<>>]
    /\ outCounts' = [i \in 1 .. Len(runs) + 1 |-> 0]
    /\ iEntry' = 0
    /\ UNCHANGED <<runs, srcRuns>>

\* One pass of the loop over the entries
CopyEntry ==
    /\ partPc = "copy"
    /\ iEntry < Len(srcRuns)
    /\ \E partition \in {UpperBound(runs, At(srcRuns, iEntry), 0)} :
          /\ outTrees' = [outTrees EXCEPT ![partition + 1] = Append(@, iEntry)]
          /\ outCounts' = [outCounts EXCEPT ![partition + 1] = @ + 1]
    /\ iEntry' = iEntry + 1
    /\ UNCHANGED <<partPc, runs, srcRuns, outputFiles>>

\* After the loop: the output files are written, the empty ones are removed
CloseOutputs ==
    /\ partPc = "copy"
    /\ iEntry >= Len(srcRuns)
    /\ partPc' = "done"
    /\ outputFiles' = [i \in DOMAIN outputFiles |->
                          IF outCounts[i] = 0 THEN "removed" ELSE "written"]
    /\ UNCHANGED <<runs, srcRuns, iEntry, outTrees, outCounts>>

InitPartition ==
    /\ partPc = "none"
    /\ runs \in RunLists
    /\ srcRuns \in InputFiles
    /\ iEntry = 0
    /\ NoOutput
    /\ FitIdle /\ L3Idle /\ PluginIdle /\ FilterIdle

NextPartition ==
    \/ OpenOutputs /\ UNCHANGED <<fitVars, l3Vars, pluginVars, filterVars>>
    \/ CopyEntry /\ UNCHANGED <<fitVars, l3Vars, pluginVars, filterVars>>
    \/ CloseOutputs /\ UNCHANGED <<fitVars, l3Vars, pluginVars, filterVars>>

SpecPartition == InitPartition /\ [][NextPartition]_vars

---------------------------------------------------------------------------
(* Claims about Multijet::MapBinning, checked under SpecMap *)

StrictlyIncreasing(edges) ==
    \A i \in 1 .. Len(edges) - 1 : DLess(edges[i], edges[i + 1])

\* How much of fine bin b a range <<start, end>> of a bin map counts
CountedFraction(b, range) ==
    IF b = range[1].index THEN range[1].frac
    ELSE IF b = range[2].index THEN range[2].frac
    ELSE IF range[1].index < b /\ b < range[2].index THEN One
    ELSE Zero

\* The counted fractions of fine bin b summed over the coarse bins k .. n
RECURSIVE TotalCounted(_, _, _, _)
TotalCounted(binMap, b, k, n) ==
    IF k > n THEN Zero
    ELSE DAdd(CountedFraction(b, binMap[k]), TotalCounted(binMap, b, k + 1, n))

\* Fine bin b (ROOT numbering) of the source binning lies inside, or outside,
\* the range of the target binning
WhollyInside(source, target, b) ==
    DLeq(target[1], source[b]) /\ DLeq(source[b + 1], Back(target))

WhollyOutside(source, target, b) ==
    DLeq(source[b + 1], target[1]) \/ DLeq(Back(target), source[b])

\* C1 (partition coverage): in the map MapBinning returns for increasing
\* binnings, without the entries of the coarse bins 0 and N + 1, the counted
\* fractions of a fine bin sum to 1 if the bin lies wholly inside the target
\* range, and to 0 if it lies wholly outside it.
C1_PartitionCoverage ==
    (mapResult.outcome = "returned" /\ StrictlyIncreasing(mapSource)) =>
        \A b \in 1 .. Len(mapSource) - 1 :
            LET total == TotalCounted(mapResult.binMap, b, 1, Len(mapTarget) - 1)
            IN /\ WhollyInside(mapSource, mapTarget, b) => total = One
               /\ WhollyOutside(mapSource, mapTarget, b) => total = Zero

\* C2 (contiguity): every range of the returned map has start.index <=
\* end.index, and the range of coarse bin k + 1 starts in the fine bin where
\* the range of coarse bin k ends, or in the next one.
C2_ContiguousRanges ==
    mapResult.outcome = "returned" =>
        /\ \A k \in DOMAIN mapResult.binMap :
              mapResult.binMap[k][1].index <= mapResult.binMap[k][2].index
        /\ \A k \in DOMAIN mapResult.binMap :
              (k + 1) \in DOMAIN mapResult.binMap =>
                  mapResult.binMap[k + 1][1].index \in
                      {mapResult.binMap[k][2].index, mapResult.binMap[k][2].index + 1}

\* C3 (containment precondition): MapBinning throws, and returns no map,
\* exactly when the first target edge is below the first source edge or the
\* last target edge is above the last source edge; otherwise it returns a map
\* with an entry for each of the coarse bins 0 .. N + 1.
C3_ContainmentPrecondition ==
    mapResult.outcome # "none" =>
        LET below == DLess(mapTarget[1], mapSource[1])
            above == DLess(mapSource[Len(mapSource)], mapTarget[Len(mapTarget)])
        IN /\ mapResult.outcome = "thrown" <=> (below \/ above)
           /\ mapResult.outcome = "thrown" => mapResult.binMap = <<>>
           /\ mapResult.outcome = "returned" =>
                 DOMAIN mapResult.binMap = 0 .. Len(mapTarget)

\* C3, witness: a call that throws only because the last target edge is above
\* the last source edge.
C3_Witness ==
    /\ mapResult.outcome = "thrown"
    /\ ~DLess(mapTarget[1], mapSource[1])
    /\ DLess(mapSource[Len(mapSource)], mapTarget[Len(mapTarget)])

\* Whether a matched edge is the match that the forward scan is to find for
\* target edge x: the source bin (numbered by its lower edge) that has x
\* above its lower edge and not above its upper edge, or the underflow bin
ScanMatch(source, x, matched) ==
    IF DLess(At(source, 0), x)
    THEN \E k \in 0 .. Len(source) - 2 :
            /\ matched.index = k
            /\ DLess(At(source, k), x)
            /\ DLeq(x, At(source, k + 1))
            /\ matched.frac = DDiv(DSub(x, At(source, k)),
                                   DSub(At(source, k + 1), At(source, k)))
    ELSE matched.index = UMinusOne /\ matched.frac = One

\* C20.  Forward scan: for sorted inputs that meet the containment
\* precondition, the scan of MapBinning matches every target edge x above
\* the first source edge to the source bin k with source[k] < x <= source[k+1]
\* and the relative position (x - source[k]) / (source[k+1] - source[k]), and
\* a target edge equal to the first source edge to the underflow bin with
\* relative position 1.
C20_ForwardScan ==
    (mapResult.outcome = "returned" /\ StrictlyIncreasing(mapSource)) =>
        LET matchedEdges == MatchEdges(mapSource, mapTarget, 0, UMinusOne)
        IN \A i \in 1 .. Len(mapTarget) :
              ScanMatch(mapSource, mapTarget[i], matchedEdges[i])

---------------------------------------------------------------------------
(* Claims about JetCorrBase::UndoCorr, checked under SpecUndo *)

\* C4 (inversion round-trip): a value u that UndoCorr returns satisfies
\* |u * Eval(u) / pt - 1| < tolerance.
C4_InversionRoundTrip ==
    undoPc = "returned" =>
        DLessTenToMinus(
            DAbs(DSub(DDiv(DMul(ptUncorr, Eval(parameters, ptUncorr)), undoPt), One)),
            undoTol)

\* C4, witness: UndoCorr has returned a value that is neither pt nor the
\* starting value pt / Eval(pt), so the loop has made an update.
C4_Witness ==
    /\ undoPc = "returned"
    /\ ptUncorr # undoPt
    /\ ptUncorr # DDiv(undoPt, Eval(parameters, undoPt))

\* C5 (bounded inversion): a call of UndoCorr ends, by returning or by
\* throwing; it never iterates indefinitely.
C5_UndoCorrEnds == (undoPc = "loop") ~> (undoPc \in {"returned", "thrown"})

---------------------------------------------------------------------------
(* Claims about Multijet::ComputeMPF, checked under SpecCompute *)

\* The weight n_b * f_b of bin b of the range ptLeadStart .. ptLeadEnd
WeightOfBin(triggerBin, ptLeadStart, ptLeadEnd, b) ==
    DMul(D(ToUnsigned(GetBinContent(triggerBin.ptLead, b))),
         IF b = ptLeadStart.index THEN ptLeadStart.frac
         ELSE IF b = ptLeadEnd.index THEN ptLeadEnd.frac
         ELSE One)

\* The sums of n_b * f_b and of bal_b * n_b * f_b over the bins b .. last
RECURSIVE SumWeights(_, _, _, _, _)
SumWeights(triggerBin, ptLeadStart, ptLeadEnd, b, last) ==
    IF b > last THEN Zero
    ELSE DAdd(WeightOfBin(triggerBin, ptLeadStart, ptLeadEnd, b),
              SumWeights(triggerBin, ptLeadStart, ptLeadEnd, b + 1, last))

RECURSIVE SumWeightedBal(_, _, _, _, _)
SumWeightedBal(triggerBin, ptLeadStart, ptLeadEnd, b, last) ==
    IF b > last THEN Zero
    ELSE DAdd(DMul(GetBinContent(triggerBin.balProfile, b),
                   WeightOfBin(triggerBin, ptLeadStart, ptLeadEnd, b)),
              SumWeightedBal(triggerBin, ptLeadStart, ptLeadEnd, b + 1, last))

\* The weighted mean of the MPF profile of data over the range
WeightedMeanMPF(triggerBin, ptLeadStart, ptLeadEnd) ==
    DDiv(SumWeightedBal(triggerBin, ptLeadStart, ptLeadEnd,
                        ptLeadStart.index, ptLeadEnd.index),
         SumWeights(triggerBin, ptLeadStart, ptLeadEnd,
                    ptLeadStart.index, ptLeadEnd.index))

\* C9 (identity correction: observable): for a corrector that evaluates to 1
\* everywhere, ComputeMPF returns the mean of the MPF profile of data over
\* the bins of the range, of weights n_b * f_b, whatever the starting bin in
\* pt of the other jets: the sum over the other jets adds nothing.
C9_IdentityObservable ==
    (cmpResult.outcome = "MPF" /\ parameters = Identity) =>
        cmpResult.value = WeightedMeanMPF(cmpBin, cmpRange[1], cmpRange[2])

\* C9, witness: ComputeMPF has returned a number for the identity, a range of
\* several bins and a starting bin of the other jets inside their axis.
C9_Witness ==
    /\ cmpResult.outcome = "MPF"
    /\ parameters = Identity
    /\ IsFinite(cmpResult.value)
    /\ cmpRange[1].index < cmpRange[2].index
    /\ cmpRange[3].index \in 1 .. NBins(cmpBin.ptJetEdges)

---------------------------------------------------------------------------
(* Claims about Multijet::Eval, checked under Spec *)

DMin(a, b) == IF DLess(a, b) THEN a ELSE b

DMax(a, b) == IF DLess(a, b) THEN b ELSE a

\* The part between l and h of a bin of the given width
PartOfBin(l, h, width) == IF DLess(l, h) THEN DDiv(DSub(h, l), width) ELSE Zero

\* The fraction of fine bin b of an axis that lies between lo and hi
OverlapFraction(edges, b, lo, hi) ==
    PartOfBin(DMax(lo, edges[b]), DMin(hi, edges[b + 1]), DSub(edges[b + 1], edges[b]))

\* What fine bin b, included with the given fraction, adds to sumBal
OverlapBinTerm(meth, triggerBin, b, numEvents, fraction, ptJetStart, params) ==
    IF numEvents = 0 \/ fraction = Zero THEN Zero
    ELSE IF meth = "PtBal"
    THEN DNeg(PtBalBinTerm(triggerBin, b, numEvents, fraction, ptJetStart, params))
    ELSE MPFBinTerm(triggerBin, b, numEvents, fraction, ptJetStart, params)

RECURSIVE OverlapSumBal(_, _, _, _, _, _, _)
OverlapSumBal(meth, triggerBin, lo, hi, ptJetStart, params, b) ==
    IF b > NBins(triggerBin.ptLeadEdges) THEN Zero
    ELSE DAdd(OverlapBinTerm(meth, triggerBin, b,
                             ToUnsigned(GetBinContent(triggerBin.ptLead, b)),
                             OverlapFraction(triggerBin.ptLeadEdges, b, lo, hi),
                             ptJetStart, params),
              OverlapSumBal(meth, triggerBin, lo, hi, ptJetStart, params, b + 1))

RECURSIVE OverlapSumWeight(_, _, _, _)
OverlapSumWeight(triggerBin, lo, hi, b) ==
    IF b > NBins(triggerBin.ptLeadEdges) THEN Zero
    ELSE DAdd(DMul(D(ToUnsigned(GetBinContent(triggerBin.ptLead, b))),
                   OverlapFraction(triggerBin.ptLeadEdges, b, lo, hi)),
              OverlapSumWeight(triggerBin, lo, hi, b + 1))

\* The observable recomputed over the fine bins between lo and hi
Recomputed(meth, triggerBin, lo, hi, ptJetStart, params) ==
    DDiv(OverlapSumBal(meth, triggerBin, lo, hi, ptJetStart, params, 1),
         OverlapSumWeight(triggerBin, lo, hi, 1))

\* The chi-square of the coarse bins i .. NbinsX of a trigger bin, of edges
\* uncorr in uncorrected pt
RECURSIVE Chi2OfCoarseBins(_, _, _, _, _, _)
Chi2OfCoarseBins(meth, triggerBin, uncorr, ptJetStart, params, i) ==
    IF i > NBins(triggerBin.simEdges) THEN Zero
    ELSE DAdd(DDiv(DSquare(DSub(Recomputed(meth, triggerBin, uncorr[i], uncorr[i + 1],
                                           ptJetStart, params),
                                GetBinContent(triggerBin.simBalProfile, i))),
                   triggerBin.totalUnc2[i]),
              Chi2OfCoarseBins(meth, triggerBin, uncorr, ptJetStart, params, i + 1))

\* The chi-square of the trigger bins k .. Len(bins)
RECURSIVE Chi2OfTriggerBins(_, _, _, _, _)
Chi2OfTriggerBins(meth, bins, minPtUncorr, params, k) ==
    IF k > Len(bins) THEN Zero
    ELSE DAdd(Chi2OfCoarseBins(meth, bins[k],
                               UncorrPtBinning(bins[k].simEdges, params, 1).value,
                               PtJetStart(bins[k], minPtUncorr), params, 1),
              Chi2OfTriggerBins(meth, bins, minPtUncorr, params, k + 1))

\* C6 (chi-square formula): the value Eval returns is the sum, over the
\* trigger bins and their interior coarse bins i, of (recomputed_i - sim_i)^2 /
\* totalUnc2_i, recomputed_i being the observable recomputed over the fine
\* bins that lie between the uncorrected edges of coarse bin i.
C6_Chi2Formula ==
    evalResult.outcome = "returned" =>
        evalResult.value =
            Chi2OfTriggerBins(method, triggerBins,
                              UndoCorr(evalResult.corrector, minPt, DefaultTolerance).value,
                              evalResult.corrector, 1)

\* C7 (non-negativity): with positive variances in all bins, the value Eval
\* returns is a number and is not negative.
C7_NonNegative ==
    (/\ evalResult.outcome = "returned"
     /\ \A k \in DOMAIN triggerBins : \A i \in DOMAIN triggerBins[k].totalUnc2 :
            DLess(Zero, triggerBins[k].totalUnc2[i])) =>
        ~IsNaN(evalResult.value) /\ DLeq(Zero, evalResult.value)

\* The edges of the simulation binning of a trigger bin lie in the range of
\* its binning vector
SimWithinBinning(triggerBin) ==
    /\ DLeq(triggerBin.binning[1], triggerBin.simEdges[1])
    /\ DLeq(Back(triggerBin.simEdges), Back(triggerBin.binning))

\* Under the identity UndoCorr returns its argument before any update, and
\* the uncorrected binning is the simulation binning
IdentityKeepsBinning(triggerBin) ==
    /\ \A i \in 1 .. NBins(triggerBin.simEdges) + 1 :
          /\ UndoSeed(Identity, GetBinLowEdge(triggerBin.simEdges, i))
                = GetBinLowEdge(triggerBin.simEdges, i)
          /\ UndoConverged(Identity, GetBinLowEdge(triggerBin.simEdges, i), DefaultTolerance,
                           GetBinLowEdge(triggerBin.simEdges, i))
          /\ UndoCorr(Identity, GetBinLowEdge(triggerBin.simEdges, i), DefaultTolerance)
                = Returned(GetBinLowEdge(triggerBin.simEdges, i))
    /\ UncorrPtBinning(triggerBin.simEdges, Identity, 1) = Returned(triggerBin.simEdges)

\* C8 (identity correction: binning), as the spec states it: for a corrector
\* that evaluates to 1 everywhere, Eval runs to completion and returns a value.
C8_IdentityEvalReturns ==
    (evalResult.outcome # "none" /\ evalResult.corrector = Identity) =>
        evalResult.outcome = "returned"

\* C8 (identity correction: binning), amended: for a corrector that evaluates
\* to 1 everywhere, UndoCorr(pt) returns pt without an update and the
\* uncorrected binning given to MapBinning is the simulation binning, edge for
\* edge; Eval returns a value if the simulation binning of every trigger bin
\* lies in the range of the bin's binning vector, and throws otherwise.
C8_IdentityBinning ==
    (evalResult.outcome # "none" /\ evalResult.corrector = Identity) =>
        /\ \A k \in DOMAIN triggerBins : IdentityKeepsBinning(triggerBins[k])
        /\ (\A k \in DOMAIN triggerBins : SimWithinBinning(triggerBins[k]))
              => evalResult.outcome = "returned"
        /\ (\E k \in DOMAIN triggerBins : ~SimWithinBinning(triggerBins[k]))
              => evalResult.outcome = "thrown"

\* C8, witness: Eval has returned for the identity and two trigger bins, one
\* of them with a simulation binning that ends where the data binning ends.
C8_Witness ==
    /\ evalResult.outcome = "returned"
    /\ evalResult.corrector = Identity
    /\ Len(triggerBins) = 2
    /\ \E k \in DOMAIN triggerBins :
          Back(triggerBins[k].simEdges) = Back(triggerBins[k].binning)

\* The uncorrected binning of a trigger bin violates the precondition of
\* MapBinning
PreconditionViolated(triggerBin, uncorr) ==
    /\ uncorr.outcome = "returned"
    /\ \/ DLess(uncorr.value[1], triggerBin.binning[1])
       \/ DLess(Back(triggerBin.binning), Back(uncorr.value))

\* Eval gets as far as the call of MapBinning for trigger bin k
ReachesMapBinning(bins, minimalPt, params, k) ==
    /\ UndoCorr(params, minimalPt, DefaultTolerance).outcome = "returned"
    /\ \A j \in 1 .. k :
          UncorrPtBinning(bins[j].simEdges, params, 1).outcome = "returned"

\* C10 (error propagation): if the precondition of MapBinning is violated for
\* some trigger bin that Eval gets to, Eval ends with the error and returns no
\* value; a call of Eval that returns has violated it for no trigger bin.
C10_ErrorPropagation ==
    evalResult.outcome # "none" =>
        \A k \in DOMAIN triggerBins :
            (/\ ReachesMapBinning(triggerBins, minPt, evalResult.corrector, k)
             /\ PreconditionViolated(triggerBins[k],
                    UncorrPtBinning(triggerBins[k].simEdges, evalResult.corrector, 1))) =>
                /\ evalResult.outcome = "thrown"
                /\ evalResult.value = NaN

\* C10, witness: Eval has thrown for two trigger bins of which the first meets
\* the precondition and the second violates it.
C10_Witness ==
    /\ evalResult.outcome = "thrown"
    /\ Len(triggerBins) = 2
    /\ ReachesMapBinning(triggerBins, minPt, evalResult.corrector, 2)
    /\ ~PreconditionViolated(triggerBins[1],
            UncorrPtBinning(triggerBins[1].simEdges, evalResult.corrector, 1))
    /\ PreconditionViolated(triggerBins[2],
            UncorrPtBinning(triggerBins[2].simEdges, evalResult.corrector, 1))

\* No bin that a range visits has events
NoEventsInRange(triggerBin, range) ==
    \A b \in range[1].index .. range[2].index :
        ToUnsigned(GetBinContent(triggerBin.ptLead, b)) = 0

\* The ranges that Eval computes the observable over for a trigger bin
InteriorRanges(triggerBin, params) ==
    InteriorBinMap(triggerBin,
                   MapBinning(triggerBin.binning,
                              UncorrPtBinning(triggerBin.simEdges, params, 1).value).binMap)

\* A trigger bin has a coarse bin whose range has no events, or whose
\* combined variance is zero
Degenerate(triggerBin, ranges) ==
    \E i \in DOMAIN ranges :
        NoEventsInRange(triggerBin, ranges[i]) \/ triggerBin.totalUnc2[i] = Zero

\* Eval gets through the inversions and the calls of MapBinning
NothingThrown(bins, minimalPt, params) ==
    /\ ReachesMapBinning(bins, minimalPt, params, Len(bins))
    /\ \A k \in DOMAIN bins :
          ~PreconditionViolated(bins[k], UncorrPtBinning(bins[k].simEdges, params, 1))

\* The observable over the single fine bin b, as Eval would ask for it
MeanBalOfBin(meth, triggerBin, b, minPtUncorr, params) ==
    MeanBal(meth, triggerBin, <<FracBin(b, One), FracBin(b, One)>>,
            PtJetStart(triggerBin, minPtUncorr), params)

\* C11 (degenerate statistics): the observable over a fine bin without events
\* is 0/0; when the inversions and MapBinning succeed Eval raises no error,
\* and it returns a non-finite value if the range of some coarse bin has no
\* events (or visits no bin) or the combined variance of some coarse bin is 0.
C11_DegenerateStatistics ==
    (/\ evalResult.outcome # "none"
     /\ NothingThrown(triggerBins, minPt, evalResult.corrector)) =>
        /\ evalResult.outcome = "returned"
        /\ (\E k \in DOMAIN triggerBins :
               Degenerate(triggerBins[k],
                          InteriorRanges(triggerBins[k], evalResult.corrector)))
              => ~IsFinite(evalResult.value)
        /\ \A k \in DOMAIN triggerBins :
              \A b \in 0 .. NBins(triggerBins[k].ptLeadEdges) + 1 :
                  ToUnsigned(GetBinContent(triggerBins[k].ptLead, b)) = 0 =>
                      IsNaN(MeanBalOfBin(method, triggerBins[k], b,
                                UndoCorr(evalResult.corrector, minPt, DefaultTolerance).value,
                                evalResult.corrector))

\* C11, witness: Eval has returned a non-finite value for a trigger bin with a
\* coarse bin of zero combined variance.
C11_Witness ==
    /\ evalResult.outcome = "returned"
    /\ ~IsFinite(evalResult.value)
    /\ \E k \in DOMAIN triggerBins : \E i \in 1 .. NBins(triggerBins[k].simEdges) :
          triggerBins[k].totalUnc2[i] = Zero

\* A call of Eval leaves the evaluator and the corrector as they are
EvalReadsOnly ==
    [][evalResult' # evalResult =>
          UNCHANGED <<method, triggerBins, minPt, dimensionality, parameters>>]_vars

\* A call of Eval with the parameters of the call before it gives the same
\* result, whatever calls of SetParams were made in between
EvalRepeats ==
    [][(evalResult.outcome # "none" /\ evalResult'.corrector = evalResult.corrector)
          => evalResult' = evalResult]_vars

\* After any sequence of calls, the result of the last call of Eval is the one
\* that a first call with the same parameters gives
EvalKeepsNoCache ==
    [](evalResult.outcome # "none" =>
          evalResult = EvalRecord(evalResult.corrector,
                                  MultijetEval(method, triggerBins, minPt,
                                               evalResult.corrector)))

\* C12 (Eval is read-only): Eval changes neither the evaluator's state nor the
\* corrector's parameters and keeps no cache: in any sequence of Eval and
\* SetParams calls, calls of Eval with equal parameters return equal results.
C12_EvalReadOnly == EvalReadsOnly /\ EvalRepeats /\ EvalKeepsNoCache

\* C12, witness: Eval has been called with parameters other than the initial
\* ones, after a call of SetParams that threw, and the parameters have been
\* changed again since.
C12_Witness ==
    /\ evalResult.outcome = "returned"
    /\ evalResult.corrector # Identity
    /\ parameters # evalResult.corrector
    /\ setParamsThrew



\* The number of terms that the chi2 loops of Eval add for trigger bins i, ...
RECURSIVE NumTerms(_, _, _)
NumTerms(bins, params, i) ==
    IF i > Len(bins) THEN 0
    ELSE Cardinality(DOMAIN InteriorRanges(bins[i], params)) + NumTerms(bins, params, i + 1)

\* C14.  Dimensionality equals the number of chi-square terms: GetDim() is
\* the sum over the trigger bins of the number of simulation bins, and for a
\* completed call of Eval it is the number of terms that the call added to
\* the chi-square; with the entries 0 and N + 1 dropped, the bin map of each
\* trigger bin holds exactly the keys 1..N.
C14_Dimensionality ==
    /\ GetDim(dimensionality) = SumNBins(triggerBins, 1)
    /\ evalResult.outcome = "returned" =>
          /\ GetDim(dimensionality) = NumTerms(triggerBins, evalResult.corrector, 1)
          /\ \A i \in 1 .. Len(triggerBins) :
                DOMAIN InteriorRanges(triggerBins[i], evalResult.corrector)
                   = 1 .. NBins(triggerBins[i].simEdges)

\* A call of Eval on two trigger bins with different numbers of simulation
\* bins has returned
C14_Witness ==
    /\ evalResult.outcome = "returned"
    /\ Len(triggerBins) = 2
    /\ NBins(triggerBins[1].simEdges) # NBins(triggerBins[2].simEdges)
    /\ dimensionality = 3
    /\ evalResult.corrector # Identity

\* The effect that the claim gives a call SetParams(newParams)
SetParamsAsClaimed(newParams) ==
    IF Len(newParams) = NumParams
    THEN parameters' = newParams /\ ~setParamsThrew'
    ELSE parameters' = parameters /\ setParamsThrew'

\* C17.  SetParams length check: SetParams replaces the parameter vector
\* when the given vector has the expected length, and otherwise throws and
\* leaves the stored parameters unchanged; after any sequence of successful
\* and failed calls GetNumParams() returns the count fixed at construction.
C17_SetParamsLength ==
    /\ [][\A newParams \in AllParams \cup {WrongParams, ShortParams} :
             SetParams(newParams) => SetParamsAsClaimed(newParams)]_vars
    /\ [][setParamsThrew' => parameters' = parameters]_vars
    /\ [](GetNumParams(parameters) = NumParams)

\* A call of SetParams has thrown after an earlier call had replaced the
\* parameters, and Eval has used the corrector since
C17_Witness ==
    /\ setParamsThrew
    /\ parameters # Identity
    /\ evalResult.outcome # "none"
    /\ evalResult.corrector = parameters

---------------------------------------------------------------------------
(* Claims about L3Corr and MultijetFOM, checked under SpecL3 *)

C16_FormSelection ==
    /\ l3Pc = "terminated" => type \notin Types
    /\ l3Pc = "constructed" => (type \in Types /\ func = type)

---------------------------------------------------------------------------
(* Claims about the functional forms of L3Corr, checked under SpecForms *)

\* C15.  Unit correction at the reference momentum: each of the functional
\* forms Linear, LogLinear and Polynomial, evaluated at pt = refPt with any
\* vector of (finite) parameters, gives exactly 1.
C15_UnitAtRefPt ==
    (l3Call.outcome = "returned" /\ l3Call.pt = refPt) => l3Call.value = One

\* The polynomial of degree two has been evaluated at refPt with two
\* non-zero parameters
C15_Witness ==
    /\ l3Call.outcome = "returned"
    /\ l3Call.form = "Polynomial"
    /\ l3Call.pt = refPt
    /\ degree = 2
    /\ At(l3Call.pars, 0) # Zero
    /\ At(l3Call.pars, 1) # Zero

---------------------------------------------------------------------------
(* Claims about the TriggerBin plugin, checked under SpecPlugin *)

\* C18.  Trigger bin numbering: for every event that the plugin accepts (the
\* pt of the leading jet is not below the lowest threshold), GetTriggerBin()
\* is in 1..number of thresholds; 0 is never reported for an accepted event.
C18_TriggerBinNumbering ==
    processed.outcome = "accepted" =>
        GetTriggerBin(pluginBin) \in 1 .. Len(ptJ1Thresholds)

---------------------------------------------------------------------------
(* Claims about PartitionFile, checked under SpecPartition *)

\* The number of boundaries that are less than or equal to a run number
BoundariesUpTo(run) == Cardinality({k \in DOMAIN runs : runs[k] <= run})

\* The output partitions (0-based) that hold input entry j
PartitionsOf(j) == {p \in 0 .. Len(outTrees) - 1 : j \in Range(At(outTrees, p))}

\* How many times input entry j is written to output partition p
Copies(p, j) == Cardinality({n \in DOMAIN At(outTrees, p) : At(outTrees, p)[n] = j})

RECURSIVE SumCounts(_, _)
SumCounts(counts, i) == IF i > Len(counts) THEN 0 ELSE counts[i] + SumCounts(counts, i + 1)

\* C19.  Run partitioning: for sorted run boundaries, every input entry that
\* the loop has passed is written once, to exactly one output partition: the
\* one whose index is the number of boundaries less than or equal to the
\* entry's run number (so a run equal to a boundary goes to the partition on
\* the right of that boundary); the entry counts per partition add up to the
\* number of entries copied, which at the end is the number of input entries.
C19_RunPartitioning ==
    partPc # "none" =>
        /\ \A j \in 0 .. Len(srcRuns) - 1 :
              IF j < iEntry
              THEN /\ PartitionsOf(j) = {BoundariesUpTo(At(srcRuns, j))}
                   /\ Copies(BoundariesUpTo(At(srcRuns, j)), j) = 1
              ELSE PartitionsOf(j) = {}
        /\ \A p \in 0 .. Len(runs) : At(outCounts, p) = Len(At(outTrees, p))
        /\ SumCounts(outCounts, 1) = iEntry
        /\ partPc = "done" => SumCounts(outCounts, 1) = Len(srcRuns)

\* A file has been partitioned that holds an entry of a run equal to a
\* boundary and an entry of the run before it, and one partition is empty
C19_Witness ==
    /\ partPc = "done"
    /\ Len(runs) = 2
    /\ \E j, k \in 0 .. Len(srcRuns) - 1 :
          /\ At(srcRuns, j) = runs[1]
          /\ At(srcRuns, k) = runs[1] - 1
    /\ \E i \in DOMAIN outputFiles : outputFiles[i] = "removed"
    /\ \E i \in DOMAIN outputFiles : outputFiles[i] = "written"

---------------------------------------------------------------------------
(* Claims about the boundaries that MapBinning builds, checked under SpecMap *)

\* Target edge x lies in source bin [source[b], source[b + 1]] and is closer
\* than the tolerance, in units of the width of that bin, to one of its edges
NearEdgeOfBin(source, b, x) ==
    LET width == DSub(source[b + 1], source[b])
    IN /\ DLeq(source[b], x) /\ DLeq(x, source[b + 1])
       /\ \/ DLess(DDiv(DSub(x, source[b]), width), Tolerance)
          \/ DLess(DDiv(DSub(source[b + 1], x), width), Tolerance)

NearSourceEdge(source, x) == \E b \in 1 .. Len(source) - 1 : NearEdgeOfBin(source, b, x)

\* The FracBins of a bin map
FracBinsOf(binMap) == UNION {{binMap[k][1], binMap[k][2]} : k \in DOMAIN binMap}

WellInsideBin(source, b, x) ==
    /\ DLess(source[b], x) /\ DLess(x, source[b + 1])
    /\ ~NearEdgeOfBin(source, b, x)

\* The relative position of x in source bin b
RelPosInBin(source, b, x) == DDiv(DSub(x, source[b]), DSub(source[b + 1], source[b]))

\* C22.  Single-bin collapse: if two consecutive target edges lie inside the
\* same source bin, both farther than the tolerance from its edges, the range
\* that MapBinning returns for the coarse bin between them starts and ends in
\* that source bin, with end.frac = 0 and start.frac the difference of the
\* relative positions of the two edges.
C22_SingleBinCollapse ==
    (mapResult.outcome = "returned" /\ StrictlyIncreasing(mapSource)) =>
        \A i \in 1 .. Len(mapTarget) - 1 : \A b \in 1 .. Len(mapSource) - 1 :
            (/\ WellInsideBin(mapSource, b, mapTarget[i])
             /\ WellInsideBin(mapSource, b, mapTarget[i + 1])) =>
                /\ mapResult.binMap[i][1].index = b
                /\ mapResult.binMap[i][2].index = b
                /\ mapResult.binMap[i][2].frac = Zero
                /\ mapResult.binMap[i][1].frac =
                      DSub(RelPosInBin(mapSource, b, mapTarget[i + 1]),
                           RelPosInBin(mapSource, b, mapTarget[i]))

\* The entry of the coarse underflow bin starts at the fine underflow bin
\* with fraction 1
UnderflowAnchored(binMap) == binMap[0][1] = FracBin(0, One)

\* C23 as the specification states it: the entry of coarse bin 0 starts at
\* the fine underflow bin (index 0) with fraction 1, and the entry of coarse
\* bin N + 1 ends at the last interior bin of the fine partition.
C23_OverflowAtLastInterior ==
    mapResult.outcome = "returned" =>
        /\ UnderflowAnchored(mapResult.binMap)
        /\ mapResult.binMap[Len(mapTarget)][2].index = Len(mapSource) - 1

\* C23.  Anchoring of the outer coarse bins: in the map that MapBinning
\* returns, the entry of coarse bin 0 starts at the fine underflow bin (index
\* 0) with fraction 1, and the entry of coarse bin N + 1 ends at the fine
\* overflow bin, the bin after the last interior one (index source.size()).
C23_OuterBinsAnchored ==
    mapResult.outcome = "returned" =>
        /\ UnderflowAnchored(mapResult.binMap)
        /\ mapResult.binMap[Len(mapTarget)][2].index = Len(mapSource)
        /\ DOMAIN mapResult.binMap = 0 .. Len(mapTarget)

\* A map has been returned for a target that ends below the last source edge
C23_Witness ==
    /\ mapResult.outcome = "returned"
    /\ StrictlyIncreasing(mapSource)
    /\ Len(mapSource) = 3
    /\ Len(mapTarget) = 3
    /\ DLess(Back(mapTarget), Back(mapSource))
    /\ DLess(mapSource[1], mapTarget[1])

---------------------------------------------------------------------------
(* Claims about the FracBins that Eval works with, checked under Spec *)

InUnitInterval(a) == DLeq(Zero, a) /\ DLeq(a, One)

\* x lies inside the range of an axis with the given edges
InsideAxis(edges, x) == DLeq(edges[1], x) /\ DLess(x, Back(edges))

\* The threshold minPt inverted with the corrector of the last call of Eval
MinPtUncorr == UndoCorr(evalResult.corrector, minPt, DefaultTolerance).value

\* The whole bin map that Eval gets for a trigger bin
BinMapOf(triggerBin, params) ==
    MapBinning(triggerBin.binning,
               UncorrPtBinning(triggerBin.simEdges, params, 1).value).binMap

\* C24.  Fractions stay in range: every FracBin of a map that MapBinning
\* returns to Eval has a fraction in [0, 1], and the FracBin that Eval builds
\* for the threshold on the pt of the other jets has a fraction in [0, 1]
\* whenever the inverted threshold lies inside the range of the axis of that
\* pt.
C24_FractionsInRange ==
    evalResult.outcome = "returned" =>
        \A k \in DOMAIN triggerBins :
            /\ \A fb \in FracBinsOf(BinMapOf(triggerBins[k], evalResult.corrector)) :
                  InUnitInterval(fb.frac)
            /\ InsideAxis(triggerBins[k].ptJetEdges, MinPtUncorr) =>
                  InUnitInterval(PtJetStart(triggerBins[k], MinPtUncorr).frac)

\* Eval has returned with the inverted threshold strictly inside a bin of the
\* axis
C24_Witness ==
    /\ evalResult.outcome = "returned"
    /\ InsideAxis(triggerBins[1].ptJetEdges, MinPtUncorr)
    /\ DLess(Zero, PtJetStart(triggerBins[1], MinPtUncorr).frac)
    /\ DLess(PtJetStart(triggerBins[1], MinPtUncorr).frac, One)

---------------------------------------------------------------------------
(* Claims about the inclusion fractions of the ranges of MapBinning, checked
   under SpecMap *)

\* The part of the width of fine bin b, [source[b], source[b + 1]), that lies
\* inside coarse bin i: (-inf, target[1]) for i = 0, [target[i], target[i + 1])
\* for an interior bin, [target[N + 1], +inf) for the last one
WidthFractionInside(source, target, b, i) ==
    LET lo == IF i = 0 \/ DLess(target[i], source[b]) THEN source[b] ELSE target[i]
        hi == IF i = Len(target) \/ DLess(source[b + 1], target[i + 1])
              THEN source[b + 1] ELSE target[i + 1]
    IN IF DLess(lo, hi) THEN DDiv(DSub(hi, lo), DSub(source[b + 1], source[b]))
       ELSE Zero

\* The fine bins of finite width that ComputeMPF and ComputePtBal visit for a
\* range
VisitedInterior(source, range) ==
    {b \in 1 .. Len(source) - 1 : range[1].index <= b /\ b <= range[2].index}

\* C25.  Inclusion fraction rule: with the weight of fine bin b being
\* ptLeadStart.frac if b is the first index of the range, otherwise
\* ptLeadEnd.frac if b is the last index, otherwise 1, every fine bin visited
\* for a range that MapBinning returned gets as its weight the fraction of its
\* width that lies inside the coarse bin (up to the tolerance of the matching
\* of edges), also when the range is a single fine bin.
C25_InclusionFraction ==
    (mapResult.outcome = "returned" /\ StrictlyIncreasing(mapSource)) =>
        \A i \in DOMAIN mapResult.binMap :
            \A b \in VisitedInterior(mapSource, mapResult.binMap[i]) :
                DLeq(DAbs(DSub(InclusionFraction(b, mapResult.binMap[i][1],
                                                 mapResult.binMap[i][2]),
                               WidthFractionInside(mapSource, mapTarget, b, i))),
                     Tolerance)

---------------------------------------------------------------------------
(* Claims about the sum over the other jets, checked under SpecCompute *)

\* What a unit of the content of a column of the grid adds: the correction at
\* the centre of the column for PtBal, 1 minus that correction for MPF
ColumnFactor(meth, triggerBin, c, params) ==
    IF meth = "PtBal" THEN Eval(params, GetBinCenter(triggerBin.ptJetEdges, c))
    ELSE DSub(One, Eval(params, GetBinCenter(triggerBin.ptJetEdges, c)))

\* The sum over the columns c .. NbinsY of the grid for fine bin b, the column
\* ptJetStart.index weighted by ptJetStart.frac and every other one by 1
RECURSIVE ColumnSum(_, _, _, _, _, _)
ColumnSum(meth, triggerBin, b, ptJetStart, params, c) ==
    IF c > NBins(triggerBin.ptJetEdges) THEN Zero
    ELSE DAdd(DMul(DMul(ColumnFactor(meth, triggerBin, c, params),
                        GetBinContent2(triggerBin.ptJetSumProj, b, c)),
                   IF c = ptJetStart.index THEN ptJetStart.frac ELSE One),
              ColumnSum(meth, triggerBin, b, ptJetStart, params, c + 1))

\* The sum over the fine bins b .. last with events of
\* f_b * ColumnSum_b / (ptLead_b * Eval(ptLead_b))
RECURSIVE SumOfColumnSums(_, _, _, _, _, _)
SumOfColumnSums(meth, triggerBin, range, params, b, last) ==
    IF b > last THEN Zero
    ELSE LET ptLead == GetBinContent(triggerBin.ptLeadProfile, b)
             rest == SumOfColumnSums(meth, triggerBin, range, params, b + 1, last)
         IN IF ToUnsigned(GetBinContent(triggerBin.ptLead, b)) = 0 THEN rest
            ELSE DAdd(DMul(DDiv(ColumnSum(meth, triggerBin, b, range[3], params,
                                          range[3].index),
                                DMul(ptLead, Eval(params, ptLead))),
                           InclusionFraction(b, range[1], range[2])),
                      rest)

\* The sum over the fine bins b .. last of bal_b * n_b / Eval(ptLead_b) * f_b
RECURSIVE SumOfCorrectedBal(_, _, _, _, _)
SumOfCorrectedBal(triggerBin, range, params, b, last) ==
    IF b > last THEN Zero
    ELSE LET ptLead == GetBinContent(triggerBin.ptLeadProfile, b)
             rest == SumOfCorrectedBal(triggerBin, range, params, b + 1, last)
         IN IF ToUnsigned(GetBinContent(triggerBin.ptLead, b)) = 0 THEN rest
            ELSE DAdd(DDiv(DMul(GetBinContent(triggerBin.balProfile, b),
                                WeightOfBin(triggerBin, range[1], range[2], b)),
                           Eval(params, ptLead)),
                      rest)

\* The observable with the other jets summed over the columns
\* ptJetStart.index .. NbinsY
ObservableOfColumns(meth, triggerBin, range, params) ==
    LET first == range[1].index
        last == range[2].index
        jets == SumOfColumnSums(meth, triggerBin, range, params, first, last)
        weight == SumWeights(triggerBin, range[1], range[2], first, last)
    IN IF meth = "PtBal" THEN DDiv(DNeg(jets), weight)
       ELSE DDiv(DAdd(SumOfCorrectedBal(triggerBin, range, params, first, last), jets),
                 weight)

\* C26.  Other-jet column sum: for each fine bin in the pt of the leading
\* jet, ComputePtBal and ComputeMPF sum the columns ptJetStart.index .. NbinsY
\* of the grid, the first weighted by ptJetStart.frac and every later one by
\* 1, each multiplied by the correction at the centre of the column (PtBal) or
\* by 1 minus that correction (MPF); columns below ptJetStart.index and the
\* overflow column add nothing to the result.
C26_ColumnSum ==
    cmpResult.outcome \in {"PtBal", "MPF"} =>
        cmpResult.value = ObservableOfColumns(cmpResult.outcome, cmpBin, cmpRange, parameters)

---------------------------------------------------------------------------
(* Claims about what Eval hands to MapBinning and to the observables, checked
   under Spec *)

\* C27.  Fine binning of a trigger bin: after the construction of Multijet the
\* binning vector of each trigger bin holds exactly NbinsX + 1 values in
\* strictly increasing order, entry j (counted from 0) being the lower edge of
\* bin j + 1 of the histogram PtLead of the trigger bin.
C27_FineBinning ==
    \A k \in DOMAIN triggerBins :
        /\ Len(triggerBins[k].binning) = NBins(triggerBins[k].ptLeadEdges) + 1
        /\ StrictlyIncreasing(triggerBins[k].binning)
        /\ \A j \in 0 .. NBins(triggerBins[k].ptLeadEdges) :
              triggerBins[k].binning[j + 1] = GetBinLowEdge(triggerBins[k].ptLeadEdges, j + 1)

\* The interior bins of the histogram PtLead of a trigger bin
InteriorFineBins(triggerBin) == 1 .. NBins(triggerBin.ptLeadEdges)

\* C28.  Ranges stay inside the data histograms: for every trigger bin and
\* every interior coarse bin that Eval passes to ComputePtBal or ComputeMPF,
\* both fine-bin indices of the range lie in 1 .. Nfine, the interior bins of
\* the histogram PtLead; the underflow bin 0, the overflow bin Nfine + 1 and
\* the indices beyond it are not in any range.
C28_RangesInsideHistograms ==
    evalResult.outcome = "returned" =>
        \A k \in DOMAIN triggerBins :
            LET ranges == InteriorRanges(triggerBins[k], evalResult.corrector)
            IN \A i \in DOMAIN ranges :
                  /\ ranges[i][1].index \in InteriorFineBins(triggerBins[k])
                  /\ ranges[i][2].index \in InteriorFineBins(triggerBins[k])

---------------------------------------------------------------------------
(* Claims about the state of an L3Corr after SetType, checked under SpecL3 *)

\* C29.  Form tag and dispatch agree: after any sequence of calls of SetType
\* on an L3Corr that has been constructed, calls that end with an error
\* included, the type tag, the function that operator() evaluates and the
\* value of GetNumParameters() belong to the same functional form: a SetType
\* that fails leaves the form selected before in effect.
C29_TagAndDispatchAgree ==
    (l3Pc # "none" /\ func # "none") =>
        /\ type = func
        /\ GetNumParameters(type, degree) = ParamsRead(func, degree)

---------------------------------------------------------------------------
(* Claims about the DynamicTriggerFilter plugin, checked under SpecFilter *)

\* C30.  Trigger lookup stays in range: when BeginRun has accepted the
\* configuration (the number of triggers is the number of trigger bins minus
\* one), then for every event that the TriggerBin plugin accepts the index
\* GetTriggerBin() - 1, computed in unsigned arithmetic, is in
\* 0 .. triggers.size() - 1, and neither ProcessEvent nor GetWeight accesses
\* a trigger out of range.
C30_TriggerLookupInRange ==
    (/\ filterPc \in {"running", "terminated"}
     /\ ConfigurationAccepted(triggers, ptJ1Thresholds)
     /\ processed.outcome = "accepted") =>
        /\ AtInRange(triggers, GetTriggerBin(pluginBin) - 1)
        /\ filterCall.outcome # "thrown"
===========================================================================
